---- MODULE Spec2Model ----
(***************************************************************************)
(* The issue-triage HTTP service of src/issue-triage/server.py.            *)
(*                                                                         *)
(* The server is a ThreadingHTTPServer: every request runs on a thread of  *)
(* its own.  A thread handles one POST /api/action request: it validates   *)
(* the body, runs the external gh calls of the action one by one, and on   *)
(* success records the decision with mark_triaged, which reads state.json, *)
(* and writes it back through the shared sibling file state.tmp.           *)
(* Every file system call and every external call is one step; the steps   *)
(* of different threads interleave freely.  A GET request reads a file or  *)
(* asks the external tool and answers in one step.                         *)
(*                                                                         *)
(* Spec      two concurrent POST requests of every kind                    *)
(* SpecStore two concurrent POST requests without labels and a GET request *)
(* SpecSeq   two POST requests handled one after the other                 *)
(* SpecEarlier   the same on the state.json of an earlier session          *)
(* SpecJson  save_json called directly, one call at a time                 *)
(* SpecGet   two GET requests of every kind, findings.json being rewritten *)
(* SpecShutdown  the serve loop, two requests and the shutdown signal      *)
(* SpecMain      main from its arguments to the server, and one request    *)
(* SpecFilter    render_dashboard called once on bounded inputs            *)
(***************************************************************************)
EXTENDS Integers, Sequences, FiniteSets, TLC

\* -------------------------------------------------------------------------
\* Bounds of the model
\* -------------------------------------------------------------------------

\* The request threads; each handles one POST /api/action request.
Threads == {"t1", "t2"}

\* The thread that handles one GET request.
Getters == {"g1"}

AllThreads == Threads \cup Getters

\* The longest labels list of a request body.
MaxLabels == 2

\* The label names a request may carry, in the order the request lists
\* them (not the alphabetical one).
LabelPool == <<"dup", "bug", "doc", "api">>

\* The request body: a JSON object, a JSON text that is not an object
\* (such as []), or bytes that are not JSON.
InputBodies == {"object", "array", "text"}

\* The type of the object's number field: an integer, the literal true, a
\* string (such as "abc"), or None when the field is missing.
NumberTypes == {"int", "bool", "str", "null"}

\* The values of an integer number field: 0 is not a valid issue number.
InputNumbers == {0, 1, 2}

\* json.loads gives True for the literal true: an int in Python (bool is
\* a subclass of int) that is greater than 0 and whose str is "True".  The
\* model writes it as a number apart from the issue numbers.
PyTrue == 1000

\* The values of the body's action field: "nope" is not an action.
InputActions == {"close", "close_wontfix", "comment", "skip", "nope"}

\* The values of the body's comment field, as sequences of characters:
\* empty, whitespace only, and text with trailing whitespace.
InputComments == {<<>>, <<" ">>, <<"k", " ">>}

\* The results of one external tool call.
GhOutcomes == {"ok", "fail", "timeout"}

\* -------------------------------------------------------------------------
\* Pure helpers
\* -------------------------------------------------------------------------

\* The values of the body's labels field: no labels (the default), or the
\* first MaxLabels names of the pool.
InputLabels == {<<>>, SubSeq(LabelPool, 1, MaxLabels)}

Whitespace == {" ", "\n", "\t"}

\* str.strip(): drop leading and trailing whitespace.
RECURSIVE LStrip(_)
LStrip(s) ==
    IF s = <<>> THEN <<>>
    ELSE IF Head(s) \in Whitespace THEN LStrip(Tail(s)) ELSE s

RECURSIVE RStrip(_)
RStrip(s) ==
    IF s = <<>> THEN <<>>
    ELSE IF s[Len(s)] \in Whitespace THEN RStrip(SubSeq(s, 1, Len(s) - 1)) ELSE s

Strip(s) == RStrip(LStrip(s))

\* bool(s) of a Python string.
Truthy(s) == s # <<>>

\* str(number), the key of the triaged mapping.
Str(n) == IF n = PyTrue THEN "True" ELSE ToString(n)

\* -------------------------------------------------------------------------
\* JSON documents and files
\* -------------------------------------------------------------------------

\* A document is a function from top-level keys to values; {} is <<>>.
EmptyDoc == <<>>

HasKey(f, k) == k \in DOMAIN f

\* The tokens of a JSON text: "k": {, }, and "k": v for a scalar v.
Open(k) == [k |-> k, t |-> "{", v |-> FALSE]
Close == [k |-> "", t |-> "}", v |-> FALSE]
Member(k, v) == [k |-> k, t |-> "=", v |-> v]

\* Mutant of EntryKeys: the text of an entry leaves the note out.
EntryKeys_NoNote == <<"action", "at", "comment_posted">>

\* The keys of an entry in the order mark_triaged inserts them.
EntryKeys == <<"action", "at", "comment_posted", "note">>

\* json.dumps of one entry of the triaged mapping.
DumpEntry(k, e) ==
    LET present == SelectSeq(EntryKeys, LAMBDA f : HasKey(e, f))
    IN  <<Open(k)>> \o [i \in 1..Len(present) |-> Member(present[i], e[present[i]])]
                    \o <<Close>>

\* json.dumps of the triaged mapping, entry after entry.
RECURSIVE DumpEntries(_, _)
DumpEntries(m, keys) ==
    IF keys = {} THEN <<>>
    ELSE LET k == CHOOSE x \in keys : TRUE
         IN  DumpEntry(k, m[k]) \o DumpEntries(m, keys \ {k})

\* json.dumps of the members of a document: the triaged mapping is an
\* object of objects, every other member a scalar.
RECURSIVE DumpMembers(_, _)
DumpMembers(doc, keys) ==
    IF keys = {} THEN <<>>
    ELSE LET k == CHOOSE x \in keys : TRUE
         IN  (IF k = "triaged"
              THEN <<Open(k)>> \o DumpEntries(doc[k], DOMAIN doc[k]) \o <<Close>>
              ELSE <<Member(k, doc[k])>>)
             \o DumpMembers(doc, keys \ {k})

\* json.dumps(data, indent=2) as tokens.
Dumps(doc) == <<Open("")>> \o DumpMembers(doc, DOMAIN doc) \o <<Close>>

\* The members of the object that starts at token i, and the position after
\* its closing brace; of a repeated key the last member counts.
RECURSIVE ParseMembers(_, _)
ParseMembers(toks, i) ==
    IF toks[i].t = "}" THEN [val |-> <<>>, next |-> i + 1]
    ELSE IF toks[i].t = "="
    THEN LET rest == ParseMembers(toks, i + 1)
         IN  [val |-> rest.val @@ (toks[i].k :> toks[i].v), next |-> rest.next]
    ELSE LET inner == ParseMembers(toks, i + 1)
             rest == ParseMembers(toks, inner.next)
         IN  [val |-> rest.val @@ (toks[i].k :> inner.val), next |-> rest.next]

\* json.loads of a complete text.
Loads(text) == ParseMembers(text, 2).val

ActionLen(a) ==
    CASE a = "closed" -> 6
      [] a = "commented" -> 9
      [] a = "skipped" -> 7
      [] OTHER -> 0

\* The characters json.dumps(entry, indent=2) spends on one entry of the
\* triaged mapping (key of one digit, isoformat timestamp of 32 characters);
\* the key "True" has three characters more.
EntryLen(e) ==
    85 + ActionLen(e["action"])
       + (IF HasKey(e, "comment_posted") THEN 30 ELSE 0)
       + (IF HasKey(e, "note") THEN 18 + Len(e["note"]) ELSE 0)

RECURSIVE SumEntryLen(_, _)
SumEntryLen(m, keys) ==
    IF keys = {} THEN 0
    ELSE LET k == CHOOSE x \in keys : TRUE
         IN  EntryLen(m[k]) + (IF k = "True" THEN 3 ELSE 0)
                 + SumEntryLen(m, keys \ {k})

\* The characters json.dumps(doc, indent=2) spends on a top-level member
\* with a scalar value, such as "version": 1.
OtherMemberLen == 16

\* len(json.dumps(doc, indent=2)).
JsonLen(doc) ==
    (IF ~HasKey(doc, "triaged") THEN 2
     ELSE IF DOMAIN doc["triaged"] = {} THEN 19
     ELSE 21 + SumEntryLen(doc["triaged"], DOMAIN doc["triaged"]))
    + OtherMemberLen * Cardinality(DOMAIN doc \ {"triaged"})

\* The bytes of a file: a complete JSON text, nothing (just truncated), or
\* the start of one text followed by the tail of a longer one.
JsonText(doc) == [kind |-> "json", len |-> JsonLen(doc), text |-> Dumps(doc)]
NoBytes == [kind |-> "empty", len |-> 0, text |-> <<>>]
TornText(n) == [kind |-> "torn", len |-> n, text |-> <<>>]

NoFile == [exists |-> FALSE, bytes |-> NoBytes]
FileOf(b) == [exists |-> TRUE, bytes |-> b]

\* write(text) at offset 0 of a file that holds old: a longer old text keeps
\* its tail.
Overwrite(old, text) ==
    IF old.len <= text.len THEN text ELSE TornText(old.len)

\* json.loads(path.read_text()) parses only a complete text.
Parses(file) == file.bytes.kind = "json"

\* load_json: {} if the file is missing, else the parsed document.
load_json(file) == IF file.exists THEN Loads(file.bytes.text) ELSE EmptyDoc

\* load_json raises when the file exists and does not parse.
load_json_raises(file) == file.exists /\ ~Parses(file)

\* -------------------------------------------------------------------------
\* The triage entry
\* -------------------------------------------------------------------------

\* Mutant of NewEntry: comment_posted and note are stored whatever they are.
NewEntry_AllFields(action, at, comment_posted, note) ==
    ("note" :> note) @@ ("comment_posted" :> comment_posted)
    @@ ("action" :> action) @@ ("at" :> at)

\* mark_triaged's entry: action and at always, comment_posted only if
\* true, note only if non-empty.
NewEntry(action, at, comment_posted, note) ==
    (IF Truthy(note) THEN ("note" :> note) ELSE <<>>)
    @@ (IF comment_posted THEN ("comment_posted" :> TRUE) ELSE <<>>)
    @@ ("action" :> action) @@ ("at" :> at)

\* Mutant of WithEntry: an issue triaged before keeps the at of its entry.
WithEntry_KeepsAt(state, number, e) ==
    LET triaged == IF HasKey(state, "triaged") THEN state["triaged"] ELSE <<>>
        kept == IF HasKey(triaged, Str(number))
                THEN ("at" :> triaged[Str(number)]["at"]) @@ e ELSE e
    IN  ("triaged" :> ((Str(number) :> kept) @@ triaged)) @@ state

\* Mutant of WithEntry: the triaged mapping is made anew for the entry.
WithEntry_FreshMapping(state, number, e) ==
    ("triaged" :> (Str(number) :> e)) @@ state

\* Mutant of WithEntry: the new entry is merged into the old entry.
WithEntry_Merge(state, number, e) ==
    LET triaged == IF HasKey(state, "triaged") THEN state["triaged"] ELSE <<>>
        old == IF HasKey(triaged, Str(number)) THEN triaged[Str(number)] ELSE <<>>
    IN  ("triaged" :> ((Str(number) :> (e @@ old)) @@ triaged)) @@ state

\* state["triaged"] defaulted to {} and state["triaged"][str(number)] = entry:
\* the document mark_triaged saves.
WithEntry(state, number, e) ==
    LET triaged == IF HasKey(state, "triaged") THEN state["triaged"] ELSE <<>>
    IN  ("triaged" :> ((Str(number) :> e) @@ triaged)) @@ state

\* -------------------------------------------------------------------------
\* The decisions of the action handlers
\* -------------------------------------------------------------------------

ValidActions == {"close", "close_wontfix", "comment", "skip"}

\* isinstance(number, int) and number > 0.
ValidNumber(n) == n \in Int /\ n > 0

\* isinstance(number, int) by the type of the number field.
IsInt(numtype) == numtype \in {"int", "bool"}

\* The values a number field of the type can have; the model writes 0 for
\* the value of a field that is no integer.
NumbersOf(numtype) ==
    CASE numtype = "int" -> InputNumbers
      [] numtype = "bool" -> {PyTrue}
      [] OTHER -> {0}

\* Mutants of CloseLabels: the forced label added last; the forced label
\* added for a plain close too.
CloseLabels_WontfixLast(action, labels) ==
    IF action = "close_wontfix" THEN labels \o <<"wontfix">> ELSE labels

CloseLabels_AlwaysWontfix(action, labels) == <<"wontfix">> \o labels

\* The labels _handle_action hands to _do_close.
CloseLabels(action, labels) ==
    IF action = "close_wontfix" THEN <<"wontfix">> \o labels ELSE labels

\* Mutant of CloseReason: the default reason whatever the action.
CloseReason_AlwaysCompleted(action) == "completed"

\* The reason _handle_action hands to _do_close.
CloseReason(action) ==
    IF action = "close_wontfix" THEN "not planned" ELSE "completed"

\* Mutant of HasComment: the comment is tested without strip().
HasComment_NoStrip(comment) == Truthy(comment)

\* comment.strip() is non-empty.
HasComment(comment) == Truthy(Strip(comment))

\* The outcome of _run_gh: (success, error message).
GhStderr == <<"not", "found">>

\* Mutant of RunGh: a timeout is not reported as a failure.
RunGh_TimeoutIsSuccess(outcome) ==
    [ok  |-> outcome # "fail",
     err |-> IF outcome = "fail" THEN GhStderr ELSE <<>>]

\* Mutant of RunGh: a timeout is reported with the error text of a failed
\* command.
RunGh_TimeoutAsStderr(outcome) ==
    [ok  |-> outcome = "ok",
     err |-> IF outcome = "ok" THEN <<>> ELSE GhStderr]

RunGh(outcome) ==
    [ok  |-> outcome = "ok",
     err |-> CASE outcome = "ok" -> <<>>
               [] outcome = "fail" -> GhStderr
               [] OTHER -> <<"Command", "timed", "out">>]

\* Mutant of AfterLabels: the comment is posted unless it is the empty
\* string.
AfterLabels_NoStrip(labels, comment) ==
    IF labels # <<>> THEN "add_label"
    ELSE IF Truthy(comment) THEN "close_body"
    ELSE "close_issue"

\* Where _do_close goes with the labels still to add and the comment.
AfterLabels(labels, comment) ==
    IF labels # <<>> THEN "add_label"
    ELSE IF HasComment(comment) THEN "close_body"
    ELSE "close_issue"

\* The messages of the responses, word by word.
MsgInvalidJson == <<"Invalid", "JSON", "body">>
MsgInvalidNumber == <<"Invalid", "issue", "number">>
MsgInvalidAction == <<"Action", "must", "be", "'close',", "'close_wontfix',", "'comment',", "or", "'skip'">>
MsgEmptyComment == <<"Comment", "cannot", "be", "empty">>
MsgLabelFailed(label, err) == <<"Failed", "to", "add", "label", label>> \o err
MsgCommentFailed(err) == <<"Failed", "to", "post", "comment">> \o err

\* Mutant of MsgCloseFailed: a failed close is reported as a failed comment.
MsgCloseFailed_AsComment(err) == <<"Failed", "to", "post", "comment">> \o err

MsgCloseFailed(err) == <<"Failed", "to", "close", "issue">> \o err

\* The bodies of the responses.
ErrorBody(msg) == "error" :> msg
FailureBody(msg) == ("ok" :> FALSE) @@ ("error" :> msg)
SuccessBody(action, e) == ("ok" :> TRUE) @@ ("action" :> action) @@ ("entry" :> e)

\* The status of a failed external call.
BadGateway == 502

\* -------------------------------------------------------------------------
\* templates.py: render_dashboard
\* -------------------------------------------------------------------------

\* d.get(k, default)
Get(d, k, default) == IF HasKey(d, k) THEN d[k] ELSE default

\* What d.get(k) gives for a missing key.
None == "None"

\* str.lower(), on the letters of the texts.
Lower(c) ==
    CASE c = "A" -> "a"
      [] c = "B" -> "b"
      [] c = "C" -> "c"
      [] OTHER -> c
LowerText(s) == [i \in 1..Len(s) |-> Lower(s[i])]

\* sub in s
Contains(sub, s) ==
    \E i \in 0..(Len(s) - Len(sub)) : SubSeq(s, i + 1, i + Len(sub)) = sub

\* findings_by_num: the findings list by issue number, a later finding of a
\* number replacing an earlier one.
RECURSIVE FindingsByNum(_)
FindingsByNum(list) ==
    IF list = <<>> THEN <<>>
    ELSE LET last == list[Len(list)]
         IN  (last.number :> last) @@ FindingsByNum(SubSeq(list, 1, Len(list) - 1))

\* findings_by_num.get(number, {})
FindingOf(by_num, number) == Get(by_num, number, EmptyDoc)

\* The verdict filter.
ByVerdict(issues, by_num, verdict) ==
    IF verdict = "" THEN issues
    ELSE LET Keep(i) == Get(FindingOf(by_num, i.number), "verdict", None) = verdict
         IN  SelectSeq(issues, Keep)

\* The confidence filter.
ByConfidence(issues, by_num, confidence) ==
    IF confidence = "" THEN issues
    ELSE LET Keep(i) ==
                 Get(FindingOf(by_num, i.number), "confidence", None) = confidence
         IN  SelectSeq(issues, Keep)

\* Mutant of ByQuery: the texts are compared as they are.
ByQuery_CaseSensitive(issues, q) ==
    IF q = <<>> THEN issues
    ELSE LET Keep(i) == Contains(q, i.title) \/ Contains(q, i.body)
         IN  SelectSeq(issues, Keep)

\* The free-text filter.
ByQuery(issues, q) ==
    IF q = <<>> THEN issues
    ELSE LET ql == LowerText(q)
             Keep(i) == \/ Contains(ql, LowerText(i.title))
                        \/ Contains(ql, LowerText(i.body))
         IN  SelectSeq(issues, Keep)

\* The triage-status filter.
ByShow(issues, triaged, show) ==
    LET Untriaged(i) == ~HasKey(triaged, Str(i.number))
        Triaged(i) == HasKey(triaged, Str(i.number))
    IN  CASE show = "pending" -> SelectSeq(issues, Untriaged)
          [] show = "triaged" -> SelectSeq(issues, Triaged)
          [] OTHER -> issues

\* Mutant of ConfidenceRank: a confidence outside the four levels ranks
\* first.
ConfidenceRank_UnknownFirst(confidence) ==
    CASE confidence = "HIGH" -> 0
      [] confidence = "MEDIUM" -> 1
      [] confidence = "LOW" -> 2
      [] confidence = "PENDING" -> 3
      [] OTHER -> 0 - 1

\* order.get(confidence, 3)
ConfidenceRank(confidence) ==
    CASE confidence = "HIGH" -> 0
      [] confidence = "MEDIUM" -> 1
      [] confidence = "LOW" -> 2
      [] OTHER -> 3

\* The key list.sort compares the issues by.
SortKey(i, by_num, sort_by) ==
    CASE sort_by = "age" -> i.created_at
      [] sort_by = "confidence" ->
            ConfidenceRank(Get(FindingOf(by_num, i.number), "confidence", "PENDING"))
      [] OTHER -> i.number

\* list.sort(key=...): ascending by key, issues of equal keys in the order
\* they had.
RECURSIVE SortedBy(_, _, _)
SortedBy(issues, by_num, sort_by) ==
    IF issues = <<>> THEN <<>>
    ELSE LET last == issues[Len(issues)]
             front == SortedBy(SubSeq(issues, 1, Len(issues) - 1), by_num, sort_by)
             NotAfter(i) == SortKey(i, by_num, sort_by) <= SortKey(last, by_num, sort_by)
             After(i) == SortKey(i, by_num, sort_by) > SortKey(last, by_num, sort_by)
         IN  SelectSeq(front, NotAfter) \o <<last>> \o SelectSeq(front, After)

\* A row of the issue table: the number and the two badges.
Row(i, by_num) ==
    [number |-> i.number,
     verdict |-> Get(FindingOf(by_num, i.number), "verdict", "pending"),
     confidence |-> Get(FindingOf(by_num, i.number), "confidence", "PENDING")]

\* render_dashboard: the rows of the table, after the filters and the sort.
render_dashboard(issues, findings, state, filters) ==
    LET by_num == FindingsByNum(Get(findings, "issues", <<>>))
        triaged == Get(state, "triaged", <<>>)
        filtered ==
            ByShow(ByQuery(ByConfidence(ByVerdict(issues, by_num, filters.verdict),
                                        by_num, filters.confidence),
                           filters.q),
                   triaged, filters.show)
        sorted == SortedBy(filtered, by_num, filters.sort)
    IN  [r \in 1..Len(sorted) |-> Row(sorted[r], by_num)]

\* -------------------------------------------------------------------------
\* State
\* -------------------------------------------------------------------------

VARIABLES
    pc,         \* per thread: where its handler stands
    req,        \* per thread: the request body it was given
    todo,       \* per thread: the labels _do_close still has to add
    calls,      \* per thread: the external calls it has issued, with results
    marks,      \* per thread: the mark_triaged invocations it has made
    resp,       \* per thread: the response it has sent (status 0: none yet)
    saving,     \* per thread: the document mark_triaged hands to save_json
    entry,      \* per thread: the entry mark_triaged returns
    fd,         \* per thread: the file its open descriptor of state.tmp names
    stateFile,  \* state.json
    tmpFile,    \* state.tmp, the sibling every save_json writes
    bodyFile,   \* per thread: its comment body temp file exists
    clock,      \* the wall clock, read by mark_triaged
    dirExists,  \* the triage directory exists
    findingsFile,  \* findings.json
    issuesFile, \* issues.json
    server,     \* the main thread, in serve_forever, and the server's flags
    dash        \* the inputs of render_dashboard and the rows it rendered

vars == <<pc, req, todo, calls, marks, resp, saving, entry, fd,
          stateFile, tmpFile, bodyFile, clock, dirExists, findingsFile,
          issuesFile, server, dash>>

NoReq == [route |-> "none", path |-> <<>>, body |-> "none", numtype |-> "null",
          number |-> 0, action |-> "none", comment |-> <<>>, labels |-> <<>>]
NoResp == [status |-> 0, body |-> <<>>]

\* The filters of a request that gives none.
NoFilters == [verdict |-> "", confidence |-> "", q |-> <<>>, show |-> "all",
              sort |-> "number"]

\* No dashboard has been rendered.
NoDashboard == [issues |-> <<>>, findings |-> EmptyDoc, state |-> EmptyDoc,
                filters |-> NoFilters, rows |-> <<>>, rendered |-> FALSE]

\* findings.json and issues.json as the skill left them: a document with
\* the repository name.
RepoText == [kind |-> "json", len |-> 15, text |-> Dumps("repo" :> "o/r")]

\* main has made the server and installed the signal handlers: the main
\* thread is about to run serve_forever, no shutdown is requested, and the
\* event that reports the end of the serve loop is not set; repo is the
\* one main took from findings.json.
Serving == [main |-> "serve", shutdown_request |-> FALSE,
            is_shut_down |-> FALSE, accepted |-> 0, repo |-> "o/r"]

\* The threads before their requests arrive.
ThreadsIdle ==
    /\ server = Serving
    /\ pc = [t \in AllThreads |-> "idle"]
    /\ req = [t \in AllThreads |-> NoReq]
    /\ todo = [t \in AllThreads |-> <<>>]
    /\ calls = [t \in AllThreads |-> <<>>]
    /\ marks = [t \in AllThreads |-> <<>>]
    /\ resp = [t \in AllThreads |-> NoResp]
    /\ saving = [t \in AllThreads |-> EmptyDoc]
    /\ entry = [t \in AllThreads |-> <<>>]
    /\ fd = [t \in AllThreads |-> "none"]
    /\ bodyFile = [t \in AllThreads |-> FALSE]

\* The triage directory main found, with findings.json and issues.json.
DirectoryFound ==
    /\ dirExists = TRUE
    /\ tmpFile = NoFile
    /\ findingsFile = FileOf(RepoText)
    /\ issuesFile = FileOf(RepoText)
    /\ clock = 0

Init ==
    /\ ThreadsIdle
    /\ DirectoryFound
    /\ stateFile = NoFile
    /\ dash = NoDashboard

\* -------------------------------------------------------------------------
\* Steps shared by the handlers
\* -------------------------------------------------------------------------

\* Mutant of SendJson: the handler does not return after the response.
SendJson_NoReturn(t, status, body) ==
    /\ resp' = [resp EXCEPT ![t] = [status |-> status, body |-> body]]
    /\ pc' = pc

\* _send_json(body, status), after which the handler returns.
SendJson(t, status, body) ==
    /\ resp' = [resp EXCEPT ![t] = [status |-> status, body |-> body]]
    /\ pc' = [pc EXCEPT ![t] = "done"]

\* An exception leaves the handler: the thread ends without a response.
Raise(t) == pc' = [pc EXCEPT ![t] = "crashed"]

\* Mutant of CallMarkTriaged: the decision is recorded twice.
CallMarkTriaged_Twice(t, number, action, comment_posted, note) ==
    /\ marks' = [marks EXCEPT ![t] = @ \o
                    << [number |-> number, action |-> action,
                        comment_posted |-> comment_posted, note |-> note],
                       [number |-> number, action |-> action,
                        comment_posted |-> comment_posted, note |-> note] >>]
    /\ pc' = [pc EXCEPT ![t] = "mt_load"]

\* The call of mark_triaged(triage_dir, number, action, comment_posted, note).
CallMarkTriaged(t, number, action, comment_posted, note) ==
    /\ marks' = [marks EXCEPT ![t] = Append(@,
                    [number |-> number, action |-> action,
                     comment_posted |-> comment_posted, note |-> note])]
    /\ pc' = [pc EXCEPT ![t] = "mt_load"]

\* One external call, as _run_gh saw it; every command line ends with
\* "--repo" and the repo that make_handler was given.
Call(verb, number, arg, outcome) ==
    [verb |-> verb, number |-> Str(number), arg |-> arg, outcome |-> outcome,
     repo |-> server.repo]

FilesUnchanged ==
    UNCHANGED <<fd, stateFile, tmpFile, clock, saving, entry, dirExists,
                findingsFile, issuesFile, server, dash>>

\* -------------------------------------------------------------------------
\* _handle_action
\* -------------------------------------------------------------------------

\* _handle_action on a request whose action and labels come from the sets.
\* json.loads of the body, then body.get: a body that is not JSON is
\* answered 400; a JSON text that is not an object has no get, so the
\* handler raises AttributeError.
HandleActionIn(t, actions, labelLists) ==
    /\ pc[t] = "idle"
    /\ \E body \in InputBodies :
        IF body = "text"
        THEN /\ req' = [req EXCEPT ![t] = [NoReq EXCEPT !.route = "/api/action",
                                                        !.body = body]]
             /\ SendJson(t, 400, ErrorBody(MsgInvalidJson))
             /\ UNCHANGED <<todo, marks>>
        ELSE IF body = "array"
        THEN /\ req' = [req EXCEPT ![t] = [NoReq EXCEPT !.route = "/api/action",
                                                        !.body = body]]
             /\ Raise(t)
             /\ UNCHANGED <<todo, marks, resp>>
        ELSE
        \E numtype \in NumberTypes, action \in actions :
        \E number \in NumbersOf(numtype),
           comment \in (IF numtype = "int" THEN InputComments ELSE {<<>>}),
           labels \in (IF numtype = "int" THEN labelLists ELSE {<<>>}) :
        /\ req' = [req EXCEPT ![t] = [route |-> "/api/action", path |-> <<>>,
                                      body |-> body, numtype |-> numtype,
                                      number |-> number, action |-> action,
                                      comment |-> comment, labels |-> labels]]
        /\ IF ~(IsInt(numtype) /\ ValidNumber(number))
           THEN /\ SendJson(t, 400, ErrorBody(MsgInvalidNumber))
                /\ UNCHANGED <<todo, marks>>
           ELSE IF action \notin ValidActions
           THEN /\ SendJson(t, 400, ErrorBody(MsgInvalidAction))
                /\ UNCHANGED <<todo, marks>>
           ELSE IF action \in {"close", "close_wontfix"}
           THEN \* _do_close(number, comment, reason, labels)
                /\ todo' = [todo EXCEPT ![t] = CloseLabels(action, labels)]
                /\ pc' = [pc EXCEPT ![t] =
                            AfterLabels(CloseLabels(action, labels), comment)]
                /\ UNCHANGED <<resp, marks>>
           ELSE IF action = "comment"
           THEN \* _do_comment(number, comment)
                IF ~HasComment(comment)
                THEN /\ SendJson(t, 400, ErrorBody(MsgEmptyComment))
                     /\ UNCHANGED <<todo, marks>>
                ELSE /\ pc' = [pc EXCEPT ![t] = "comment_body"]
                     /\ UNCHANGED <<todo, resp, marks>>
           ELSE \* _do_skip(number, note)
                /\ CallMarkTriaged(t, number, "skipped", FALSE, comment)
                /\ UNCHANGED <<todo, resp>>
    /\ UNCHANGED <<calls, bodyFile>>
    /\ FilesUnchanged

HandleAction(t) == HandleActionIn(t, InputActions, InputLabels)

\* -------------------------------------------------------------------------
\* _do_close
\* -------------------------------------------------------------------------

\* One turn of the label loop: gh issue edit --add-label.
AddLabel(t) ==
    /\ pc[t] = "add_label"
    /\ \E outcome \in GhOutcomes :
        LET label == Head(todo[t])
            r == RunGh(outcome)
        IN  /\ calls' = [calls EXCEPT ![t] =
                    Append(@, Call("add-label", req[t].number, label, outcome))]
            /\ IF r.ok
               THEN /\ todo' = [todo EXCEPT ![t] = Tail(@)]
                    /\ pc' = [pc EXCEPT ![t] =
                                AfterLabels(Tail(todo[t]), req[t].comment)]
                    /\ UNCHANGED resp
               ELSE /\ SendJson(t, BadGateway, FailureBody(MsgLabelFailed(label, r.err)))
                    /\ UNCHANGED todo
    /\ UNCHANGED <<req, marks, bodyFile>>
    /\ FilesUnchanged

\* The comment goes to a temporary file of the request's own.
WriteBodyFile(t) ==
    /\ pc[t] \in {"close_body", "comment_body"}
    /\ bodyFile' = [bodyFile EXCEPT ![t] = TRUE]
    /\ pc' = [pc EXCEPT ![t] =
                IF pc[t] = "close_body" THEN "close_comment" ELSE "comment_post"]
    /\ UNCHANGED <<req, todo, calls, marks, resp>>
    /\ FilesUnchanged

\* Mutant of ClosePostComment: the unlink follows the call without a
\* finally clause, so that a failed call returns before it.
ClosePostComment_NoFinally(t) ==
    /\ pc[t] = "close_comment"
    /\ \E outcome \in GhOutcomes :
        LET r == RunGh(outcome)
        IN  /\ calls' = [calls EXCEPT ![t] =
                    Append(@, Call("comment", req[t].number, "body-file", outcome))]
            /\ IF r.ok
               THEN /\ bodyFile' = [bodyFile EXCEPT ![t] = FALSE]
                    /\ pc' = [pc EXCEPT ![t] = "close_issue"]
                    /\ UNCHANGED resp
               ELSE /\ SendJson(t, BadGateway, FailureBody(MsgCommentFailed(r.err)))
                    /\ UNCHANGED bodyFile
    /\ UNCHANGED <<req, todo, marks>>
    /\ FilesUnchanged

\* gh issue comment --body-file, and the unlink of the finally clause.
ClosePostComment(t) ==
    /\ pc[t] = "close_comment"
    /\ \E outcome \in GhOutcomes :
        LET r == RunGh(outcome)
        IN  /\ calls' = [calls EXCEPT ![t] =
                    Append(@, Call("comment", req[t].number, "body-file", outcome))]
            /\ bodyFile' = [bodyFile EXCEPT ![t] = FALSE]
            /\ IF r.ok
               THEN /\ pc' = [pc EXCEPT ![t] = "close_issue"]
                    /\ UNCHANGED resp
               ELSE SendJson(t, BadGateway, FailureBody(MsgCommentFailed(r.err)))
    /\ UNCHANGED <<req, todo, marks>>
    /\ FilesUnchanged

\* Mutant of CloseIssue: comment_posted is bool(comment), without the strip.
CloseIssue_UnstrippedComment(t) ==
    /\ pc[t] = "close_issue"
    /\ \E outcome \in GhOutcomes :
        LET r == RunGh(outcome)
        IN  /\ calls' = [calls EXCEPT ![t] =
                    Append(@, Call("close", req[t].number,
                                   CloseReason(req[t].action), outcome))]
            /\ IF r.ok
               THEN /\ CallMarkTriaged(t, req[t].number, "closed",
                                       Truthy(req[t].comment), <<>>)
                    /\ UNCHANGED resp
               ELSE /\ SendJson(t, BadGateway, FailureBody(MsgCloseFailed(r.err)))
                    /\ UNCHANGED marks
    /\ UNCHANGED <<req, todo, bodyFile>>
    /\ FilesUnchanged

\* Mutant of CloseIssue: mark_triaged is called whatever the close returned.
CloseIssue_AlwaysMarks(t) ==
    /\ pc[t] = "close_issue"
    /\ \E outcome \in GhOutcomes :
        /\ calls' = [calls EXCEPT ![t] =
                Append(@, Call("close", req[t].number,
                               CloseReason(req[t].action), outcome))]
        /\ CallMarkTriaged(t, req[t].number, "closed",
                           HasComment(req[t].comment), <<>>)
        /\ UNCHANGED resp
    /\ UNCHANGED <<req, todo, bodyFile>>
    /\ FilesUnchanged

\* gh issue close --reason, and on success mark_triaged(number, "closed").
CloseIssue(t) ==
    /\ pc[t] = "close_issue"
    /\ \E outcome \in GhOutcomes :
        LET r == RunGh(outcome)
        IN  /\ calls' = [calls EXCEPT ![t] =
                    Append(@, Call("close", req[t].number,
                                   CloseReason(req[t].action), outcome))]
            /\ IF r.ok
               THEN /\ CallMarkTriaged(t, req[t].number, "closed",
                                       HasComment(req[t].comment), <<>>)
                    /\ UNCHANGED resp
               ELSE /\ SendJson(t, BadGateway, FailureBody(MsgCloseFailed(r.err)))
                    /\ UNCHANGED marks
    /\ UNCHANGED <<req, todo, bodyFile>>
    /\ FilesUnchanged

\* -------------------------------------------------------------------------
\* _do_comment
\* -------------------------------------------------------------------------

\* gh issue comment --body-file, the unlink, and on success
\* mark_triaged(number, "commented", comment_posted=True).
CommentPost(t) ==
    /\ pc[t] = "comment_post"
    /\ \E outcome \in GhOutcomes :
        LET r == RunGh(outcome)
        IN  /\ calls' = [calls EXCEPT ![t] =
                    Append(@, Call("comment", req[t].number, "body-file", outcome))]
            /\ bodyFile' = [bodyFile EXCEPT ![t] = FALSE]
            /\ IF r.ok
               THEN /\ CallMarkTriaged(t, req[t].number, "commented", TRUE, <<>>)
                    /\ UNCHANGED resp
               ELSE /\ SendJson(t, BadGateway, FailureBody(MsgCommentFailed(r.err)))
                    /\ UNCHANGED marks
    /\ UNCHANGED <<req, todo>>
    /\ FilesUnchanged

\* -------------------------------------------------------------------------
\* mark_triaged and save_json
\* -------------------------------------------------------------------------

\* The arguments of the thread's running mark_triaged call.
MarkArgs(t) == marks[t][Len(marks[t])]

\* state = load_json(state_path); the entry with at = now(); the entry put
\* under str(number).  A state.json that does not parse raises.
MtLoad(t) ==
    /\ pc[t] = "mt_load"
    /\ IF load_json_raises(stateFile)
       THEN /\ pc' = [pc EXCEPT ![t] = "crashed"]
            /\ UNCHANGED <<saving, entry, clock>>
       ELSE LET m == MarkArgs(t)
                e == NewEntry(m.action, clock, m.comment_posted, m.note)
            IN  /\ entry' = [entry EXCEPT ![t] = e]
                /\ saving' = [saving EXCEPT ![t] =
                                WithEntry(load_json(stateFile), m.number, e)]
                /\ clock' = clock + 1
                /\ pc' = [pc EXCEPT ![t] = "save_open"]
    /\ UNCHANGED <<req, todo, calls, marks, resp, fd, stateFile, tmpFile, bodyFile,
                   dirExists, findingsFile, issuesFile, server, dash>>

\* Mutant of SaveOpen: the text is written to state.json in place.
SaveOpen_InPlace(t) ==
    /\ pc[t] = "save_open"
    /\ dirExists' = TRUE
    /\ stateFile' = FileOf(NoBytes)
    /\ fd' = [fd EXCEPT ![t] = "state"]
    /\ pc' = [pc EXCEPT ![t] = "save_write"]
    /\ UNCHANGED <<req, todo, calls, marks, resp, saving, entry, tmpFile,
                   bodyFile, clock, findingsFile, issuesFile, server, dash>>

\* save_json: mkdir(parents=True, exist_ok=True) of the directory;
\* tmp = path.with_suffix(".tmp"); write_text opens tmp for writing, which
\* creates it or truncates it.
SaveOpen(t) ==
    /\ pc[t] = "save_open"
    /\ dirExists' = TRUE
    /\ tmpFile' = FileOf(NoBytes)
    /\ fd' = [fd EXCEPT ![t] = "tmp"]
    /\ pc' = [pc EXCEPT ![t] = "save_write"]
    /\ UNCHANGED <<req, todo, calls, marks, resp, saving, entry, stateFile,
                   bodyFile, clock, findingsFile, issuesFile, server, dash>>

\* write_text writes the text at the start of the file it opened, whatever
\* name that file has by now, and closes it.
SaveWrite(t) ==
    /\ pc[t] = "save_write"
    /\ LET text == JsonText(saving[t])
       IN  CASE fd[t] = "tmp" ->
                  /\ tmpFile' = FileOf(Overwrite(tmpFile.bytes, text))
                  /\ UNCHANGED stateFile
             [] fd[t] = "state" ->
                  /\ stateFile' = FileOf(Overwrite(stateFile.bytes, text))
                  /\ UNCHANGED tmpFile
             [] OTHER -> UNCHANGED <<stateFile, tmpFile>>
    /\ fd' = [fd EXCEPT ![t] = "none"]
    /\ pc' = [pc EXCEPT ![t] = "save_rename"]
    /\ UNCHANGED <<req, todo, calls, marks, resp, saving, entry, bodyFile, clock,
                   dirExists, findingsFile, issuesFile, server, dash>>

\* tmp.rename(path): state.json becomes the file state.tmp named; with no
\* state.tmp the rename raises FileNotFoundError.
SaveRename(t) ==
    /\ pc[t] = "save_rename"
    /\ IF ~tmpFile.exists
       THEN /\ pc' = [pc EXCEPT ![t] = "crashed"]
            /\ UNCHANGED <<stateFile, tmpFile, fd>>
       ELSE /\ stateFile' = tmpFile
            /\ tmpFile' = NoFile
            /\ fd' = [u \in AllThreads |->
                        CASE fd[u] = "tmp" -> "state"
                          [] fd[u] = "state" -> "orphan"
                          [] OTHER -> fd[u]]
            /\ pc' = [pc EXCEPT ![t] = "respond"]
    /\ UNCHANGED <<req, todo, calls, marks, resp, saving, entry, bodyFile, clock,
                   dirExists, findingsFile, issuesFile, server, dash>>

\* The action a handler reports in its 200 response.
ReportedAction(action) ==
    CASE action \in {"close", "close_wontfix"} -> "closed"
      [] action = "comment" -> "commented"
      [] OTHER -> "skipped"

\* mark_triaged has returned the entry: the 200 response.
Respond(t) ==
    /\ pc[t] = "respond"
    /\ SendJson(t, 200, SuccessBody(ReportedAction(req[t].action), entry[t]))
    /\ UNCHANGED <<req, todo, calls, marks, bodyFile>>
    /\ FilesUnchanged

\* -------------------------------------------------------------------------
\* The GET handlers
\* -------------------------------------------------------------------------

\* data["triaged"] = {} if the document has no triaged member.
WithTriaged(data) ==
    IF HasKey(data, "triaged") THEN data ELSE ("triaged" :> <<>>) @@ data

\* Mutant of GetState: the defaulted document is written back.
GetState_Persist(t) ==
    /\ pc[t] = "idle"
    /\ req' = [req EXCEPT ![t] = [NoReq EXCEPT !.route = "/api/state"]]
    /\ IF load_json_raises(stateFile)
       THEN /\ Raise(t)
            /\ UNCHANGED <<resp, stateFile>>
       ELSE /\ SendJson(t, 200, WithTriaged(load_json(stateFile)))
            /\ stateFile' = FileOf(JsonText(WithTriaged(load_json(stateFile))))
    /\ UNCHANGED <<todo, calls, marks, bodyFile>>
    /\ UNCHANGED <<fd, tmpFile, clock, saving, entry, dirExists,
                   findingsFile, issuesFile, server, dash>>

\* _handle_get_state: load_json of state.json, the triaged member defaulted
\* in the answer only.  A state.json that does not parse raises.
GetState(t) ==
    /\ pc[t] = "idle"
    /\ req' = [req EXCEPT ![t] = [NoReq EXCEPT !.route = "/api/state"]]
    /\ IF load_json_raises(stateFile)
       THEN /\ Raise(t)
            /\ UNCHANGED resp
       ELSE SendJson(t, 200, WithTriaged(load_json(stateFile)))
    /\ UNCHANGED <<todo, calls, marks, bodyFile>>
    /\ FilesUnchanged

\* Mutant of GetFindings: the document of an earlier answer is kept and
\* sent again.
GetFindings_Cached(t) ==
    /\ pc[t] = "idle"
    /\ req' = [req EXCEPT ![t] = [NoReq EXCEPT !.route = "/api/findings"]]
    /\ IF \E u \in AllThreads : pc[u] = "done" /\ req[u].route = "/api/findings"
       THEN \E u \in AllThreads :
               /\ pc[u] = "done" /\ req[u].route = "/api/findings"
               /\ SendJson(t, 200, resp[u].body)
       ELSE IF load_json_raises(findingsFile)
       THEN /\ Raise(t)
            /\ UNCHANGED resp
       ELSE SendJson(t, 200, load_json(findingsFile))
    /\ UNCHANGED <<todo, calls, marks, bodyFile>>
    /\ FilesUnchanged

\* _handle_get_findings: load_json of findings.json, sent as it is.
GetFindings(t) ==
    /\ pc[t] = "idle"
    /\ req' = [req EXCEPT ![t] = [NoReq EXCEPT !.route = "/api/findings"]]
    /\ IF load_json_raises(findingsFile)
       THEN /\ Raise(t)
            /\ UNCHANGED resp
       ELSE SendJson(t, 200, load_json(findingsFile))
    /\ UNCHANGED <<todo, calls, marks, bodyFile>>
    /\ FilesUnchanged

\* The results of gh issue view: as GhOutcomes, or output that is not JSON.
ViewOutcomes == GhOutcomes \cup {"notjson"}

GatewayTimeout == 504

MsgGhError(err) == <<"gh", "CLI", "error", err>>
MsgGhTimedOut == <<"gh", "CLI", "timed", "out">>
MsgGhInvalidJson == <<"Invalid", "JSON", "from", "gh", "CLI">>

\* The decimal digits, by value.
Digits == <<"0", "1", "2", "3", "4", "5", "6", "7", "8", "9">>
IsDigit(c) == \E d \in 1..Len(Digits) : Digits[d] = c
DigitValue(c) == (CHOOSE d \in 1..Len(Digits) : Digits[d] = c) - 1

\* The text after an optional sign.
Unsigned(s) == IF s # <<>> /\ s[1] \in {"+", "-"} THEN Tail(s) ELSE s

\* int(s) of a text without whitespace parses an optional sign followed by
\* digits, which single underscores may separate; anything else is a
\* ValueError.
IntParses(s) ==
    LET u == Unsigned(s)
    IN  /\ u # <<>>
        /\ \A i \in 1..Len(u) : IsDigit(u[i]) \/ u[i] = "_"
        /\ u[1] # "_" /\ u[Len(u)] # "_"
        /\ \A i \in 1..(Len(u) - 1) : ~(u[i] = "_" /\ u[i + 1] = "_")

\* The value of a digit text, underscores skipped.
RECURSIVE DigitsValue(_)
DigitsValue(u) ==
    IF u = <<>> THEN 0
    ELSE LET front == SubSeq(u, 1, Len(u) - 1)
         IN  IF u[Len(u)] = "_" THEN DigitsValue(front)
             ELSE 10 * DigitsValue(front) + DigitValue(u[Len(u)])

\* int(s) where it parses.
IntOf(s) ==
    IF s # <<>> /\ s[1] = "-" THEN 0 - DigitsValue(Unsigned(s))
    ELSE DigitsValue(Unsigned(s))

\* The segment after /api/issues/ in the paths of the GET requests.
IssueSegments ==
    { <<"1">>, <<"0">>, <<"-", "1">>, <<"+", "1">>, <<"1", "_", "2">>,
      <<"_", "1">>, <<"x">>, <<>> }

\* The segment of the GET /api/issues/N requests that run beside the POST
\* requests.
ViewSegments == { <<"1">> }

\* do_GET for a path that starts with /api/issues/: int() of the segment
\* after it, 400 on a ValueError; else _handle_get_issue: gh issue view
\* --json, its output sent as it is.
GetIssueIn(t, segments) ==
    /\ pc[t] = "idle"
    /\ \E seg \in segments :
        IF ~IntParses(seg)
        THEN /\ req' = [req EXCEPT ![t] = [NoReq EXCEPT !.route = "/api/issues",
                                                        !.path = seg]]
             /\ SendJson(t, 400, ErrorBody(MsgInvalidNumber))
             /\ UNCHANGED calls
        ELSE \E outcome \in ViewOutcomes :
             /\ req' = [req EXCEPT ![t] = [NoReq EXCEPT !.route = "/api/issues",
                                                        !.path = seg,
                                                        !.number = IntOf(seg)]]
             /\ calls' = [calls EXCEPT ![t] =
                             Append(@, Call("view", IntOf(seg), "json", outcome))]
             /\ CASE outcome = "ok" -> SendJson(t, 200, "number" :> IntOf(seg))
                  [] outcome = "fail" ->
                         SendJson(t, BadGateway, ErrorBody(MsgGhError(GhStderr)))
                  [] outcome = "timeout" ->
                         SendJson(t, GatewayTimeout, ErrorBody(MsgGhTimedOut))
                  [] OTHER -> SendJson(t, BadGateway, ErrorBody(MsgGhInvalidJson))
    /\ UNCHANGED <<todo, marks, bodyFile>>
    /\ FilesUnchanged

GetIssue(t) == GetIssueIn(t, ViewSegments)

\* The directory of server.py and the static asset root beside it, as
\* absolute paths, name by name.
AppDir == <<"app">>
static_dir == AppDir \o <<"static">>

\* The file system around the static asset root: the regular files, and a
\* symbolic link inside the root to a file outside.
Files ==
    { static_dir \o <<"index.html">>, static_dir \o <<"css", "a.css">>,
      AppDir \o <<"server.py">>, <<"etc", "passwd">> }
LinkTarget == (static_dir \o <<"out">>) :> (AppDir \o <<"server.py">>)

\* The paths of the GET requests no API route takes, as the names between
\* the slashes; the empty one is "/".
StaticPaths ==
    { <<>>, <<"index.html">>, <<"css", "a.css">>, <<"css">>, <<"nofile">>,
      <<".", "css", "", "a.css">>, <<"css", "..", "index.html">>,
      <<"..", "server.py">>, <<"css", "..", "..", "server.py">>,
      <<"..", "..", "etc", "passwd">>, <<"..", "..", "..", "etc", "passwd">>,
      <<"..", "static", "index.html">>, <<"out">>, <<"..">> }

\* os.path.normpath of a relative path: empty names and "." are dropped and
\* a name followed by ".." cancels; the ".." that are left lead the path.
RECURSIVE Normpath(_)
Normpath(names) ==
    IF names = <<>> THEN <<>>
    ELSE LET front == Normpath(SubSeq(names, 1, Len(names) - 1))
             last == names[Len(names)]
         IN  IF last \in {"", "."} THEN front
             ELSE IF last = ".." /\ front # <<>> /\ front[Len(front)] # ".."
                  THEN SubSeq(front, 1, Len(front) - 1)
                  ELSE Append(front, last)

\* Path.resolve of an absolute path: empty names and "." are dropped, ".."
\* steps to the parent (the root is its own parent) and a symbolic link is
\* replaced by its target.
RECURSIVE Resolve(_)
Resolve(names) ==
    IF names = <<>> THEN <<>>
    ELSE LET front == Resolve(SubSeq(names, 1, Len(names) - 1))
             last == names[Len(names)]
             path == Append(front, last)
         IN  IF last \in {"", "."} THEN front
             ELSE IF last = ".." THEN SubSeq(front, 1, Len(front) - 1)
             ELSE IF path \in DOMAIN LinkTarget THEN LinkTarget[path]
             ELSE path

\* Mutant of Inside: the resolved path is not compared with the root.
Inside_Unchecked(path) == TRUE

\* relative_to(static_dir) does not raise: the root's names lead the path.
Inside(path) ==
    /\ Len(path) >= Len(static_dir)
    /\ SubSeq(path, 1, Len(static_dir)) = static_dir

\* The file path do_GET hands to _serve_static.
FilePath(names) == IF names = <<>> THEN <<"index.html">> ELSE names

MsgForbidden == <<"Forbidden">>
MsgNotFound == <<"Not", "found">>

\* The response that carries the bytes of a file.
FileBody(path) == "file" :> path

\* do_GET for "/" and for every other path: _serve_static.
ServeStatic(t) ==
    /\ pc[t] = "idle"
    /\ \E names \in StaticPaths :
        LET full_path == static_dir \o Normpath(FilePath(names))
        IN  /\ req' = [req EXCEPT ![t] = [NoReq EXCEPT !.route = "static",
                                                       !.path = names]]
            /\ IF ~Inside(Resolve(full_path))
               THEN SendJson(t, 403, ErrorBody(MsgForbidden))
               ELSE IF Resolve(full_path) \notin Files
               THEN SendJson(t, 404, ErrorBody(MsgNotFound))
               ELSE SendJson(t, 200, FileBody(Resolve(full_path)))
    /\ UNCHANGED <<todo, calls, marks, bodyFile>>
    /\ FilesUnchanged

\* -------------------------------------------------------------------------
\* The specification
\* -------------------------------------------------------------------------

Next ==
    \E t \in Threads :
        \/ HandleAction(t)
        \/ AddLabel(t)
        \/ WriteBodyFile(t)
        \/ ClosePostComment(t)
        \/ CloseIssue(t)
        \/ CommentPost(t)
        \/ MtLoad(t)
        \/ SaveOpen(t)
        \/ SaveWrite(t)
        \/ SaveRename(t)
        \/ Respond(t)

Spec == Init /\ [][Next]_vars

\* -------------------------------------------------------------------------
\* The state store under concurrent requests: two POST requests that record
\* a decision without closing an issue, and one GET request.
\* -------------------------------------------------------------------------

\* The actions of the POST requests of this specification.
StoreActions == {"skip", "comment", "nope"}

\* state.json is absent on the first run, or holds a document without the
\* triaged member.
InitStore ==
    /\ ThreadsIdle
    /\ DirectoryFound
    /\ stateFile \in {NoFile, FileOf(JsonText(EmptyDoc))}
    /\ dash = NoDashboard

NextStore ==
    \/ \E t \in Threads :
        \/ HandleActionIn(t, StoreActions, {<<>>})
        \/ WriteBodyFile(t)
        \/ CommentPost(t)
        \/ MtLoad(t)
        \/ SaveOpen(t)
        \/ SaveWrite(t)
        \/ SaveRename(t)
        \/ Respond(t)
    \/ \E g \in Getters :
        \/ GetState(g)
        \/ GetFindings(g)
        \/ GetIssue(g)

SpecStore == InitStore /\ [][NextStore]_vars

\* -------------------------------------------------------------------------
\* The service with one POST request in flight at a time: requests that
\* carry no labels, so that each records a decision of every kind.
\* -------------------------------------------------------------------------

\* The actions of the POST requests of this specification.
SeqActions == {"close", "comment", "skip"}

\* No other thread is inside a handler.
Alone(t) == \A u \in AllThreads \ {t} : pc[u] \in {"idle", "done", "crashed"}

NextSeq ==
    \E t \in Threads :
        \/ Alone(t) /\ HandleActionIn(t, SeqActions, {<<>>})
        \/ Alone(t) /\ WriteBodyFile(t)
        \/ Alone(t) /\ ClosePostComment(t)
        \/ Alone(t) /\ CloseIssue(t)
        \/ Alone(t) /\ CommentPost(t)
        \/ Alone(t) /\ MtLoad(t)
        \/ Alone(t) /\ SaveOpen(t)
        \/ Alone(t) /\ SaveWrite(t)
        \/ Alone(t) /\ SaveRename(t)
        \/ Alone(t) /\ Respond(t)

SpecSeq == InitStore /\ [][NextSeq]_vars

\* -------------------------------------------------------------------------
\* The same, on a state.json of an earlier session
\* -------------------------------------------------------------------------

\* The documents of state.json an earlier session left: a member beside
\* triaged that the server does not use, and decisions on no issue, on
\* issue 2, or on issues 1 and 2.
EarlierStates ==
    LET member == "version" :> 1
        closed == NewEntry("closed", 0, TRUE, <<>>)
        skipped == NewEntry("skipped", 0, FALSE, <<"k">>)
    IN  { member,
          member @@ ("triaged" :> ("2" :> closed)),
          member @@ ("triaged" :> (("1" :> skipped) @@ ("2" :> closed))) }

InitEarlier ==
    /\ ThreadsIdle
    /\ DirectoryFound
    /\ stateFile \in {FileOf(JsonText(d)) : d \in EarlierStates}
    /\ dash = NoDashboard

SpecEarlier == InitEarlier /\ [][NextSeq]_vars

\* -------------------------------------------------------------------------
\* save_json and load_json called directly, one call at a time, in a
\* directory that does not exist yet
\* -------------------------------------------------------------------------

\* The entries and the documents the calls are given.
JsonEntries ==
    {NewEntry("closed", 0, cp, note) : cp \in BOOLEAN, note \in {<<>>, <<"k">>}}

JsonDocs ==
    {EmptyDoc, "triaged" :> <<>>}
    \cup {WithEntry(EmptyDoc, 1, e) : e \in JsonEntries}
    \cup {WithEntry(WithEntry(EmptyDoc, 1, e), 2, f) : e, f \in JsonEntries}

InitJson ==
    /\ ThreadsIdle
    /\ dirExists = FALSE
    /\ stateFile = NoFile
    /\ tmpFile = NoFile
    /\ findingsFile = NoFile
    /\ issuesFile = NoFile
    /\ clock = 0
    /\ dash = NoDashboard

\* No other thread is inside save_json.
NoOtherSave(t) == \A u \in AllThreads \ {t} : pc[u] \in {"idle", "respond"}

\* The call save_json(path, D).
SaveJsonCall(t) ==
    /\ pc[t] = "idle"
    /\ \E D \in JsonDocs : saving' = [saving EXCEPT ![t] = D]
    /\ pc' = [pc EXCEPT ![t] = "save_open"]
    /\ UNCHANGED <<req, todo, calls, marks, resp, entry, fd, stateFile, tmpFile,
                   bodyFile, clock, dirExists, findingsFile, issuesFile, server, dash>>

NextJson ==
    \E t \in Threads :
        \/ NoOtherSave(t) /\ SaveJsonCall(t)
        \/ NoOtherSave(t) /\ SaveOpen(t)
        \/ NoOtherSave(t) /\ SaveWrite(t)
        \/ NoOtherSave(t) /\ SaveRename(t)

SpecJson == InitJson /\ [][NextJson]_vars

\* -------------------------------------------------------------------------
\* The GET requests, two of them, while findings.json is rewritten
\* -------------------------------------------------------------------------

\* The documents the triage skill leaves in findings.json.
FindingsTexts ==
    { RepoText,
      [kind |-> "json", len |-> 2, text |-> Dumps(EmptyDoc)],
      [kind |-> "json", len |-> 15, text |-> Dumps("repo" :> "a/b")] }

\* Outside the server findings.json is replaced by another document, or
\* removed.
UpdateFindings ==
    /\ \E file \in {NoFile} \cup {FileOf(b) : b \in FindingsTexts} :
        /\ file # findingsFile
        /\ findingsFile' = file
    /\ UNCHANGED <<pc, req, todo, calls, marks, resp, saving, entry, fd,
                   stateFile, tmpFile, bodyFile, clock, dirExists,
                   issuesFile, server, dash>>

NextGet ==
    \/ \E t \in Threads :
        \/ GetState(t)
        \/ GetFindings(t)
        \/ GetIssueIn(t, IssueSegments)
        \/ ServeStatic(t)
    \/ UpdateFindings

SpecGet == InitStore /\ [][NextGet]_vars

\* -------------------------------------------------------------------------
\* The serve loop, the request threads and the signal handler
\* -------------------------------------------------------------------------

\* The process has not ended.
Alive == server.main # "exited"

\* The connections that have been handed to a thread.
Started == Cardinality({t \in Threads : pc[t] # "idle"})

\* The serve loop has accepted a connection that no thread has yet.
Handed == Alive /\ Started < server.accepted

\* One turn of serve_forever on the main thread: with a shutdown requested
\* the loop ends, the event is set, serve_forever returns and main with it;
\* else a waiting connection is accepted and given to a new thread.
ServeLoop ==
    /\ server.main = "serve"
    /\ IF server.shutdown_request
       THEN server' = [server EXCEPT !.main = "exited",
                                     !.shutdown_request = FALSE,
                                     !.is_shut_down = TRUE]
       ELSE /\ server.accepted < Cardinality(Threads)
            /\ server' = [server EXCEPT !.accepted = @ + 1]
    /\ UNCHANGED <<pc, req, todo, calls, marks, resp, saving, entry, fd,
                   stateFile, tmpFile, bodyFile, clock, dirExists,
                   findingsFile, issuesFile, dash>>

\* The handler of SIGINT and SIGTERM runs on the main thread, on top of
\* what that thread was doing: server.shutdown() requests the shutdown and
\* waits for the event that the end of the serve loop sets; with the event
\* set it returns and the main thread goes on.
Shutdown ==
    /\ \/ /\ server.main = "serve"
          /\ server' = [server EXCEPT
                            !.shutdown_request = TRUE,
                            !.main = IF server.is_shut_down THEN "serve"
                                     ELSE "shutdown"]
       \/ /\ server.main = "shutdown"
          /\ server.is_shut_down
          /\ server' = [server EXCEPT !.main = "serve"]
    /\ UNCHANGED <<pc, req, todo, calls, marks, resp, saving, entry, fd,
                   stateFile, tmpFile, bodyFile, clock, dirExists,
                   findingsFile, issuesFile, dash>>

\* The actions of the requests that run while the server is shut down.
ShutdownActions == {"skip"}

\* The steps of a request thread.
Worker(t) ==
    \/ Handed /\ HandleActionIn(t, ShutdownActions, {<<>>})
    \/ Handed /\ GetFindings(t)
    \/ Alive /\ MtLoad(t)
    \/ Alive /\ SaveOpen(t)
    \/ Alive /\ SaveWrite(t)
    \/ Alive /\ SaveRename(t)
    \/ Alive /\ Respond(t)

NextShutdown ==
    \/ ServeLoop
    \/ Shutdown
    \/ \E t \in Threads : Worker(t)

\* Every thread that can run does run: the main thread in its loop or in
\* the wait of the handler, and each request thread.  Nothing makes a
\* signal arrive.
Scheduling ==
    /\ WF_vars(ServeLoop)
    /\ WF_vars(server.main = "shutdown" /\ Shutdown)
    /\ \A t \in Threads : WF_vars(Worker(t))

SpecShutdown == Init /\ [][NextShutdown]_vars /\ Scheduling

\* -------------------------------------------------------------------------
\* main: the triage directory, the repo, then the server
\* -------------------------------------------------------------------------

\* The values of args.repo: None without the option, else its text.
ArgRepos == {None, "", "x/y"}

\* findings.json and issues.json as the skill leaves them for main: absent,
\* or a document with a repo, with an empty one or without one.
EmptyRepoText == [kind |-> "json", len |-> 12, text |-> Dumps("repo" :> "")]
RepoFiles ==
    {NoFile, FileOf(EmptyRepoText)} \cup {FileOf(b) : b \in FindingsTexts}

\* "if not repo": None and the empty text are false.
NotRepo(repo) == repo \in {None, ""}

\* The loop of main over findings.json and issues.json, from the file
\* files[n] on, with the repo it has so far: the repo it ends with, or
\* "raised" where load_json raises.
RECURSIVE FromFiles_IssuesFirst(_, _, _)
FromFiles_IssuesFirst(files, n, repo) ==
    IF n > Len(files) THEN [raised |-> FALSE, repo |-> repo]
    ELSE LET file == files[Len(files) + 1 - n]
             found == Get(load_json(file), "repo", "")
         IN  IF load_json_raises(file) THEN [raised |-> TRUE, repo |-> repo]
             ELSE IF ~NotRepo(found) THEN [raised |-> FALSE, repo |-> found]
             ELSE FromFiles_IssuesFirst(files, n + 1, found)

RECURSIVE FromFiles(_, _, _)
FromFiles(files, n, repo) ==
    IF n > Len(files) THEN [raised |-> FALSE, repo |-> repo]
    ELSE IF load_json_raises(files[n]) THEN [raised |-> TRUE, repo |-> repo]
    ELSE LET found == Get(load_json(files[n]), "repo", "")
         IN  IF ~NotRepo(found) THEN [raised |-> FALSE, repo |-> found]
             ELSE FromFiles(files, n + 1, found)

\* main up to serve_forever: without the triage directory it exits with
\* status 1; it keeps a repo given with --repo, else reads the two files;
\* without a repo it exits with status 1, and an exception of load_json
\* ends it with a traceback; else it makes the handler class with the repo
\* and the server, which listens from then on.
Main ==
    /\ server.main = "start"
    /\ IF ~dirExists
       THEN server' = [server EXCEPT !.main = "exit 1"]
       ELSE LET read == IF NotRepo(server.repo)
                        THEN FromFiles(<<findingsFile, issuesFile>>, 1,
                                       server.repo)
                        ELSE [raised |-> FALSE, repo |-> server.repo]
            IN  IF read.raised
                THEN server' = [server EXCEPT !.main = "raised"]
                ELSE IF NotRepo(read.repo)
                THEN server' = [server EXCEPT !.main = "exit 1",
                                             !.repo = read.repo]
                ELSE server' = [server EXCEPT !.main = "serve",
                                             !.repo = read.repo]
    /\ UNCHANGED <<pc, req, todo, calls, marks, resp, saving, entry, fd,
                   stateFile, tmpFile, bodyFile, clock, dirExists,
                   findingsFile, issuesFile, dash>>

\* main is started with or without --repo on a triage directory that may
\* be missing, with any of the files.
InitMain ==
    /\ \E repo \in ArgRepos :
        server = [Serving EXCEPT !.main = "start", !.repo = repo]
    /\ pc = [t \in AllThreads |-> "idle"]
    /\ req = [t \in AllThreads |-> NoReq]
    /\ todo = [t \in AllThreads |-> <<>>]
    /\ calls = [t \in AllThreads |-> <<>>]
    /\ marks = [t \in AllThreads |-> <<>>]
    /\ resp = [t \in AllThreads |-> NoResp]
    /\ saving = [t \in AllThreads |-> EmptyDoc]
    /\ entry = [t \in AllThreads |-> <<>>]
    /\ fd = [t \in AllThreads |-> "none"]
    /\ bodyFile = [t \in AllThreads |-> FALSE]
    /\ dirExists \in BOOLEAN
    /\ findingsFile \in RepoFiles
    /\ issuesFile \in RepoFiles
    /\ stateFile = NoFile
    /\ tmpFile = NoFile
    /\ clock = 0
    /\ dash = NoDashboard

\* The server listens.
Listening == server.main = "serve"

\* The requests that make external calls, on the server main started.
MainActions == {"comment", "close"}

NextMain ==
    \/ Main
    \/ \E t \in Getters :
        \/ Listening /\ GetIssue(t)
        \/ Listening /\ HandleActionIn(t, MainActions, {<<"bug">>})
        \/ AddLabel(t)
        \/ WriteBodyFile(t)
        \/ ClosePostComment(t)
        \/ CloseIssue(t)
        \/ CommentPost(t)
        \/ MtLoad(t)
        \/ SaveOpen(t)
        \/ SaveWrite(t)
        \/ SaveRename(t)
        \/ Respond(t)

SpecMain == InitMain /\ [][NextMain]_vars

\* -------------------------------------------------------------------------
\* render_dashboard called on issues, findings, a state and filters
\* -------------------------------------------------------------------------

\* How many issues the issue list has at most.
MaxIssues == 3

\* The issues of issues.json: number, title, body and time of creation.
IssuePool ==
    { [number |-> 1, title |-> <<"a", "B">>, body |-> <<"c">>, created_at |-> 2],
      [number |-> 2, title |-> <<"c">>, body |-> <<"b">>, created_at |-> 1],
      [number |-> 3, title |-> <<"a">>, body |-> <<>>, created_at |-> 1] }

\* The issue lists: every order of every part of the pool.
IssueLists ==
    { list \in UNION { [1..n -> IssuePool] : n \in 0..MaxIssues } :
        \A i, j \in 1..Len(list) : i # j => list[i] # list[j] }

\* The findings an issue may have: none, or one of these, among them one
\* with a confidence outside the four levels and one without a confidence.
FindingChoices ==
    [n \in {1, 2, 3} |->
        CASE n = 1 -> { <<>>,
                        << [number |-> 1, verdict |-> "pending",
                            confidence |-> "PENDING"] >>,
                        << [number |-> 1, verdict |-> "unclear",
                            confidence |-> "SOME"] >> }
          [] n = 2 -> { <<>>,
                        << [number |-> 2, verdict |-> "likely_resolved",
                            confidence |-> "HIGH"] >>,
                        << [number |-> 2, verdict |-> "still_open"] >> }
          [] OTHER -> { <<>>,
                        << [number |-> 3, verdict |-> "likely_resolved",
                            confidence |-> "MEDIUM"] >>,
                        << [number |-> 3, verdict |-> "still_open",
                            confidence |-> "LOW"] >> }]

\* The documents of findings.json.
FindingsInputs ==
    { "issues" :> (f1 \o f2 \o f3) :
        f1 \in FindingChoices[1], f2 \in FindingChoices[2], f3 \in FindingChoices[3] }

\* The documents of state.json: none, or a triaged mapping for some of the
\* issues 1 and 3.
StateInputs ==
    { EmptyDoc }
    \cup { "triaged" :> [k \in keys |-> NewEntry("skipped", 0, FALSE, <<>>)] :
             keys \in SUBSET {"1", "3"} }

\* The filters of the requests.
FilterInputs ==
    [verdict : {"", "pending", "likely_resolved"},
     confidence : {"", "PENDING", "HIGH"},
     q : { <<>>, <<"A", "b">>, <<"B">> },
     show : {"all", "pending", "triaged"},
     sort : {"number", "age", "confidence"}]

InitFilter ==
    /\ ThreadsIdle
    /\ DirectoryFound
    /\ stateFile = NoFile
    /\ \E issues \in IssueLists, findings \in FindingsInputs, state \in StateInputs :
        dash = [NoDashboard EXCEPT !.issues = issues, !.findings = findings,
                                   !.state = state]

\* One call of render_dashboard.
Render ==
    /\ ~dash.rendered
    /\ \E filters \in FilterInputs :
        dash' = [dash EXCEPT
                    !.filters = filters,
                    !.rows = render_dashboard(dash.issues, dash.findings,
                                              dash.state, filters),
                    !.rendered = TRUE]
    /\ UNCHANGED <<pc, req, todo, calls, marks, resp, saving, entry, fd,
                   stateFile, tmpFile, bodyFile, clock, dirExists,
                   findingsFile, issuesFile, server>>

NextFilter == Render

SpecFilter == InitFilter /\ [][NextFilter]_vars

\* -------------------------------------------------------------------------
\* Vocabulary of the properties
\* -------------------------------------------------------------------------

\* Every call of the sequence returned success.
AllOk(s) == \A i \in 1..Len(s) : s[i].outcome = "ok"

\* Some external call of the thread's request failed or timed out.
SomeCallFailed(t) == ~AllOk(calls[t])

\* The thread's handler has returned or raised.
Finished(t) == pc[t] \in {"done", "crashed"}

\* The thread was given a request that passed the validation of number
\* and action.
Accepted(t) == pc[t] # "idle" /\ req[t].number > 0 /\ req[t].action \in ValidActions

\* The thread has entered neither mark_triaged nor save_json.
NeverRecorded(t) ==
    marks[t] = <<>> /\ saving[t] = EmptyDoc /\ entry[t] = <<>> /\ fd[t] = "none"

\* The text is empty or whitespace only.
Blank(text) == \A i \in 1..Len(text) : text[i] \in {" ", "\n", "\t"}

\* The verbs of a call sequence.
Verbs(s) == [i \in 1..Len(s) |-> s[i].verb]

\* What was asked of the tool, call by call, without the results.
Asked(s) == [i \in 1..Len(s) |-> <<s[i].verb, s[i].arg>>]

\* -------------------------------------------------------------------------
\* C1
\* -------------------------------------------------------------------------

C1_Response ==
    \A t \in Threads :
        (req[t].action \in {"close", "close_wontfix", "comment"} /\ SomeCallFailed(t))
        => /\ pc[t] = "done"
           /\ resp[t].status = 502
           /\ DOMAIN resp[t].body = {"ok", "error"}
           /\ resp[t].body["ok"] = FALSE
           /\ resp[t].body["error"] # <<>>
           /\ NeverRecorded(t)

C1_Writer ==
    stateFile' # stateFile
    => \E t \in Threads :
          /\ pc[t] \in {"save_write", "save_rename"}
          /\ pc'[t] # pc[t]
          /\ AllOk(calls[t])

\* C1: a close, close_wontfix or comment request one of whose external
\* calls failed or timed out is answered 502 with {ok: false, error: text},
\* and it has not touched state.json: it never entered mark_triaged or
\* save_json, and every step that changes state.json is a save_json step of
\* a request all of whose external calls succeeded.
C1_FailedSequenceLeavesState == []C1_Response /\ [][C1_Writer]_vars

\* A close_wontfix request whose close call failed after a successful
\* label-add, answered 502, while state.json holds another request's entry.
C1_Witness ==
    \E t \in Threads :
        /\ req[t].action = "close_wontfix"
        /\ Len(calls[t]) >= 2
        /\ calls[t][Len(calls[t])].verb = "close"
        /\ calls[t][Len(calls[t])].outcome = "fail"
        /\ resp[t].status = 502
        /\ stateFile.exists

\* -------------------------------------------------------------------------
\* C2
\* -------------------------------------------------------------------------

\* C2: a request stops at its first failing external call: a call that
\* failed or timed out is the last call the request ever issues, and the
\* request never invokes mark_triaged.
C2_StopsAtFirstFailure ==
    \A t \in Threads :
        \A i \in 1..Len(calls[t]) :
            calls[t][i].outcome # "ok"
            => i = Len(calls[t]) /\ marks[t] = <<>> /\ pc[t] = "done"

\* A request whose first call (a label-add) timed out and which had a
\* comment to post and an issue to close after it.
C2_Witness ==
    \E t \in Threads :
        /\ req[t].action = "close_wontfix"
        /\ ~Blank(req[t].comment)
        /\ Len(calls[t]) = 1
        /\ calls[t][1].verb = "add-label"
        /\ calls[t][1].outcome = "timeout"
        /\ pc[t] = "done"

\* -------------------------------------------------------------------------
\* C3
\* -------------------------------------------------------------------------

IsLabelAdd(c) == c.verb = "add-label"

\* C3: in a close or close_wontfix request no comment-post precedes a
\* label-add, the close call is the last call, there is at most one
\* comment-post and one close, and for close_wontfix the label-add calls
\* are for "wontfix" first and then the requested labels in request order.
C3_CallOrder ==
    \A t \in Threads :
        req[t].action \in {"close", "close_wontfix"}
        => LET s == calls[t]
               adds == SelectSeq(s, IsLabelAdd)
           IN  /\ \A i, j \in 1..Len(s) :
                    (i < j /\ s[j].verb = "add-label") => s[i].verb = "add-label"
               /\ \A i \in 1..Len(s) : s[i].verb = "close" => i = Len(s)
               /\ \A i, j \in 1..Len(s) :
                    (s[i].verb = "comment" /\ s[j].verb = "comment") => i = j
               /\ req[t].action = "close_wontfix"
                  => /\ Len(adds) <= 1 + Len(req[t].labels)
                     /\ \A i \in 1..Len(adds) :
                          adds[i].arg = (<<"wontfix">> \o req[t].labels)[i]
                     /\ (s # <<>> => s[1].verb = "add-label")

\* A close_wontfix request with a requested label and a comment that ran its
\* whole sequence: two label-adds, the comment, the close.
C3_Witness ==
    \E t \in Threads :
        /\ req[t].action = "close_wontfix"
        /\ req[t].labels # <<>>
        /\ Verbs(calls[t]) = <<"add-label">> \o [i \in 1..Len(req[t].labels) |-> "add-label"]
                             \o <<"comment", "close">>
        /\ calls[t][2].arg = req[t].labels[1]

\* -------------------------------------------------------------------------
\* C4
\* -------------------------------------------------------------------------

\* The request has no external call left to issue and none of them failed.
SequenceSucceeded(t) ==
    /\ Accepted(t)
    /\ pc[t] \notin {"add_label", "close_body", "close_comment", "close_issue",
                     "comment_body", "comment_post"}
    /\ resp[t].status # 400
    /\ AllOk(calls[t])

\* The last call a request of this action issues.
LastVerb(action) == IF action = "comment" THEN "comment" ELSE "close"

\* C4: a request invokes mark_triaged at most once; it has invoked it
\* exactly once as soon as its whole external call sequence has succeeded
\* and not before (every call is issued, the last one of the action
\* included, and none failed); no external call follows the invocation; and
\* a 200 response is sent only after the invocation.
C4_MarkOnceAfterCalls ==
    \A t \in Threads :
        /\ Len(marks[t]) <= 1
        /\ SequenceSucceeded(t) <=> Len(marks[t]) = 1
        /\ (marks[t] # <<>> /\ req[t].action # "skip")
           => /\ calls[t] # <<>>
              /\ calls[t][Len(calls[t])].verb = LastVerb(req[t].action)
        /\ resp[t].status = 200 => Len(marks[t]) = 1

\* A close request with a comment that has sent its 200 response after two
\* successful calls and one mark_triaged invocation.
C4_Witness ==
    \E t \in Threads :
        /\ req[t].action = "close"
        /\ Verbs(calls[t]) = <<"comment", "close">>
        /\ Len(marks[t]) = 1
        /\ resp[t].status = 200

\* -------------------------------------------------------------------------
\* C5
\* -------------------------------------------------------------------------

\* C5: a valid skip request issues no external call, invokes mark_triaged
\* exactly once with action "skipped" and the request's comment as note, and
\* ends with the response 200 {ok: true, action: "skipped"}.
C5_SkipAlwaysSucceeds ==
    \A t \in Threads :
        (Accepted(t) /\ req[t].action = "skip")
        => /\ calls[t] = <<>>
           /\ marks[t] = << [number |-> req[t].number, action |-> "skipped",
                             comment_posted |-> FALSE, note |-> req[t].comment] >>
           /\ Finished(t)
              => /\ resp[t].status = 200
                 /\ resp[t].body["ok"] = TRUE
                 /\ resp[t].body["action"] = "skipped"

\* -------------------------------------------------------------------------
\* C6
\* -------------------------------------------------------------------------

\* The message has the word.
HasWord(msg, word) == \E i \in 1..Len(msg) : msg[i] = word

\* C6: a comment request whose comment is empty or whitespace only is
\* answered 400 with an error message that contains "empty"; it issues no
\* external call, writes no comment body file and never enters mark_triaged
\* or save_json.
C6_BlankCommentRejected ==
    \A t \in Threads :
        (Accepted(t) /\ req[t].action = "comment" /\ Blank(req[t].comment))
        => /\ pc[t] = "done"
           /\ resp[t].status = 400
           /\ DOMAIN resp[t].body = {"error"}
           /\ HasWord(resp[t].body["error"], "empty")
           /\ calls[t] = <<>>
           /\ ~bodyFile[t]
           /\ NeverRecorded(t)

\* A whitespace-only comment was rejected while state.json holds the entry
\* of another request.
C6_Witness ==
    \E t \in Threads :
        /\ req[t].action = "comment"
        /\ req[t].number > 0
        /\ req[t].comment = <<" ">>
        /\ resp[t].status = 400
        /\ stateFile.exists

\* -------------------------------------------------------------------------
\* C7
\* -------------------------------------------------------------------------

\* C7: a comment request with a non-blank comment issues exactly one
\* external call, the comment-post with a body file; when that call has
\* succeeded the request ends with the response 200 {ok: true, action:
\* "commented"} whose entry has action "commented" and comment_posted true.
C7_CommentPostedAndRecorded ==
    \A t \in Threads :
        (Accepted(t) /\ req[t].action = "comment" /\ ~Blank(req[t].comment)
           /\ Finished(t))
        => /\ Asked(calls[t]) = << <<"comment", "body-file">> >>
           /\ calls[t][1].outcome = "ok"
              => /\ resp[t].status = 200
                 /\ resp[t].body["ok"] = TRUE
                 /\ resp[t].body["action"] = "commented"
                 /\ resp[t].body["entry"]["action"] = "commented"
                 /\ resp[t].body["entry"]["comment_posted"] = TRUE

\* -------------------------------------------------------------------------
\* C8
\* -------------------------------------------------------------------------

\* One label-add for each label of the list, in order.
LabelAdds(labels) == [i \in 1..Len(labels) |-> <<"add-label", labels[i]>>]

\* The comment-post, if the comment is not blank.
CommentPostIf(comment) ==
    IF Blank(comment) THEN <<>> ELSE << <<"comment", "body-file">> >>

\* The request's external calls all succeeded and none is left.
Succeeded(t) == marks[t] # <<>>

SameButLabels(t, u) ==
    /\ req[t].action = req[u].action
    /\ req[t].number = req[u].number
    /\ req[t].comment = req[u].comment

C10_WontfixCalls ==
    \A t \in Threads :
        (req[t].action = "close_wontfix" /\ Succeeded(t))
        => /\ AllOk(calls[t])
           /\ Asked(calls[t]) = << <<"add-label", "wontfix">> >>
                                \o LabelAdds(req[t].labels)
                                \o CommentPostIf(req[t].comment)
                                \o << <<"close", "not planned">> >>
           /\ Len(SelectSeq(calls[t], IsLabelAdd)) = Len(req[t].labels) + 1
           /\ req[t].labels = <<>>
              => Len(calls[t]) = IF Blank(req[t].comment) THEN 2 ELSE 3

\* Successful close_wontfix requests with default labels: three calls with
\* a comment, two without.
C10_Witness ==
    \E t, u \in Threads :
        /\ req[t].action = "close_wontfix" /\ req[u].action = "close_wontfix"
        /\ req[t].labels = <<>> /\ req[u].labels = <<>>
        /\ resp[t].status = 200 /\ resp[u].status = 200
        /\ ~Blank(req[t].comment) /\ Len(calls[t]) = 3
        /\ Blank(req[u].comment) /\ Len(calls[u]) = 2

\* -------------------------------------------------------------------------
\* C11
\* -------------------------------------------------------------------------

\* The thread was given a request the validation must refuse: a body that
\* is not JSON or not a JSON object, a number that is missing, no integer
\* or not greater than 0, or an action outside the four.
Invalid(t) ==
    /\ pc[t] # "idle"
    /\ \/ req[t].body # "object"
       \/ ~IsInt(req[t].numtype)
       \/ req[t].number <= 0
       \/ req[t].action \notin ValidActions

\* C11: every invalid POST /api/action request is answered 400 with a JSON
\* body {error}, issues no external call and leaves state.json alone.
C11_InvalidRequestIs400 ==
    \A t \in Threads :
        Invalid(t)
        => /\ pc[t] = "done"
           /\ resp[t].status = 400
           /\ DOMAIN resp[t].body = {"error"}
           /\ calls[t] = <<>>
           /\ NeverRecorded(t)

\* -------------------------------------------------------------------------
\* C12
\* -------------------------------------------------------------------------

\* The thread's load_json of state.json raised: the file it read was no
\* complete JSON text.  (A POST thread raises there before it has a
\* document to save; a GET /api/state thread raises nowhere else.)
LoadRaised(t) ==
    /\ pc[t] = "crashed"
    /\ \/ req[t].route = "/api/state"
       \/ marks[t] # <<>> /\ saving[t] = EmptyDoc

\* The documents some save_json call was given in full.
SavedDocs == {saving[t] : t \in {u \in Threads : saving[u] # EmptyDoc}}

\* C12: under any interleaving of the request threads, every load of
\* state.json observes a complete document that one save wrote in full (or
\* the initial one), never a torn or partial one.
C12_LoadsSeeCompleteDocuments ==
    \A t \in AllThreads :
        /\ ~LoadRaised(t)
        /\ (req[t].route = "/api/state" /\ pc[t] = "done")
           => \E d \in SavedDocs \cup {EmptyDoc} : resp[t].body = WithTriaged(d)

\* -------------------------------------------------------------------------
\* C13
\* -------------------------------------------------------------------------

\* The thread is inside save_json and has not renamed yet.
BeforeRename(t) == pc[t] \in {"save_open", "save_write", "save_rename"}

\* state.json is absent or holds a complete JSON text.
StateComplete == stateFile.exists => Parses(stateFile)

\* A step of save_json before its rename leaves state.json as it was; the
\* rename puts the text of D there, whole.
C13_Step ==
    \A t \in Threads :
        (BeforeRename(t) /\ pc'[t] # pc[t])
        => IF pc'[t] = "respond"
           THEN stateFile' = FileOf(JsonText(saving[t]))
           ELSE stateFile' = stateFile

\* C13: whenever the process stops inside save_json(path, D) before the
\* rename, path still holds the complete previous version or is absent;
\* after the rename it holds D in full.
C13_CrashKeepsPreviousVersion == []StateComplete /\ [][C13_Step]_vars

\* A second save has written its whole text to state.tmp and has not
\* renamed: state.json still holds the different document of the first.
C13_Witness ==
    \E t, u \in Threads :
        /\ pc[t] = "save_rename" /\ pc[u] = "respond"
        /\ tmpFile = FileOf(JsonText(saving[t]))
        /\ stateFile = FileOf(JsonText(saving[u]))
        /\ saving[t] # saving[u]

\* -------------------------------------------------------------------------
\* C14
\* -------------------------------------------------------------------------

\* load_json of a path with no file returns the empty mapping.
C14_MissingIsEmpty ==
    ~stateFile.exists
    => ~load_json_raises(stateFile) /\ load_json(stateFile) = EmptyDoc

\* When save_json(path, D) returns, load_json(path) returns D, the
\* directory exists and no state.tmp is left.
C14_Return ==
    \A t \in Threads :
        (pc[t] = "save_rename" /\ pc'[t] = "respond")
        => /\ ~load_json_raises(stateFile')
           /\ load_json(stateFile') = saving[t]
           /\ dirExists'
           /\ ~tmpFile'.exists

\* C14: save_json(path, D) followed by load_json(path) returns a document
\* equal to D, missing parent directories are created, no .tmp sibling
\* remains; load_json of a missing path returns the empty mapping.
C14_RoundTrip == []C14_MissingIsEmpty /\ [][C14_Return]_vars

\* A document of two entries, one with a note and comment_posted, has been
\* saved into the directory the call created and reads back as given.
C14_Witness ==
    \E t \in Threads :
        /\ pc[t] = "respond"
        /\ dirExists /\ ~tmpFile.exists
        /\ HasKey(saving[t], "triaged")
        /\ DOMAIN saving[t]["triaged"] = {"1", "2"}
        /\ DOMAIN saving[t]["triaged"]["1"] = {"action", "at", "comment_posted", "note"}
        /\ load_json(stateFile) = saving[t]

\* -------------------------------------------------------------------------
\* C15
\* -------------------------------------------------------------------------

\* mark_triaged returns: save_json has renamed.
Returns(t) == pc[t] = "save_rename" /\ pc'[t] = "respond"

\* The fields an entry made from the arguments has.
FieldsOf(m) ==
    {"action", "at"}
    \cup (IF m.comment_posted THEN {"comment_posted"} ELSE {})
    \cup (IF m.note # <<>> THEN {"note"} ELSE {})

\* How many objects of the text have the key.
Objects(text, k) == Cardinality({i \in 1..Len(text) : text[i] = Open(k)})

\* When mark_triaged(N, ...) returns, state.json has one entry for N, with
\* exactly the fields of this call.
C15_Step ==
    \A t \in Threads :
        Returns(t)
        => LET m == MarkArgs(t)
               k == Str(m.number)
               d == load_json(stateFile')
           IN  /\ HasKey(d, "triaged") /\ HasKey(d["triaged"], k)
               /\ DOMAIN d["triaged"][k] = FieldsOf(m)
               /\ d["triaged"][k]["action"] = m.action
               /\ HasKey(d["triaged"][k], "note") => d["triaged"][k]["note"] = m.note
               /\ Objects(stateFile'.bytes.text, k) = 1

\* C15: re-triaging an issue number replaces its entry completely: after
\* mark_triaged(N, ...) the entry for N has exactly the fields of the new
\* call, none of the old entry survives, and there is one entry for N.
C15_RetriageReplaces == [][C15_Step]_vars

\* An issue triaged with a posted comment was triaged again by a skip
\* without a note: its entry is the skip's, with action and at only.
C15_Witness ==
    \E t, u \in Threads :
        /\ pc[t] = "done" /\ pc[u] = "respond"
        /\ marks[t] # <<>> /\ marks[u] # <<>>
        /\ MarkArgs(t).number = MarkArgs(u).number
        /\ HasKey(entry[t], "comment_posted")
        /\ entry[t]["at"] < entry[u]["at"]
        /\ load_json(stateFile)["triaged"][Str(MarkArgs(u).number)] = entry[u]
        /\ DOMAIN entry[u] = {"action", "at"}

\* -------------------------------------------------------------------------
\* C16
\* -------------------------------------------------------------------------

\* Both threads handled an action request on the same issue number whose
\* external calls succeeded, and both handlers have ended.
BothFinishedOnSameIssue(t, u) ==
    /\ t # u
    /\ Finished(t) /\ Finished(u)
    /\ marks[t] # <<>> /\ marks[u] # <<>>
    /\ MarkArgs(t).number = MarkArgs(u).number

\* C16: when two requests on the same issue number run concurrently and
\* both finish, state.json holds exactly one entry for the number, equal
\* to the entry one of the two requests wrote, never a mixture.
C16_SameIssueLastWriteWins ==
    \A t, u \in Threads :
        BothFinishedOnSameIssue(t, u)
        => LET k == Str(MarkArgs(t).number)
           IN  /\ stateFile.exists /\ Parses(stateFile)
               /\ HasKey(load_json(stateFile), "triaged")
               /\ HasKey(load_json(stateFile)["triaged"], k)
               /\ load_json(stateFile)["triaged"][k] \in {entry[t], entry[u]}
               /\ Objects(stateFile.bytes.text, k) = 1

\* -------------------------------------------------------------------------
\* C17
\* -------------------------------------------------------------------------

\* The triaged mapping a load of the file gives; empty if there is none.
TriagedOf(file) ==
    IF Parses(file) /\ HasKey(load_json(file), "triaged")
    THEN load_json(file)["triaged"] ELSE <<>>

\* The keys of the issue numbers of the requests.
IssueKeys == {Str(n) : n \in InputNumbers \cup {PyTrue}}

\* C17 as claimed: once state.json holds an entry for issue N with at = t,
\* every later state of state.json with an entry for N has at = t.
C17_AtImmutable ==
    [][\A k \in IssueKeys :
         (HasKey(TriagedOf(stateFile), k) /\ HasKey(TriagedOf(stateFile'), k))
         => TriagedOf(stateFile')[k]["at"] = TriagedOf(stateFile)[k]["at"]]_vars

\* The entry of a mark_triaged call gets the time the call reads; when the
\* call returns, the stored entry of its issue has that time; and the at of
\* an issue's entry changes only then, to a later time.
C17_Step ==
    /\ \A t \in Threads :
        /\ (pc[t] = "mt_load" /\ pc'[t] = "save_open") => entry'[t]["at"] = clock
        /\ Returns(t)
           => TriagedOf(stateFile')[Str(MarkArgs(t).number)]["at"] = entry[t]["at"]
    /\ \A k \in IssueKeys :
        (/\ HasKey(TriagedOf(stateFile), k)
         /\ HasKey(TriagedOf(stateFile'), k)
         /\ TriagedOf(stateFile')[k]["at"] # TriagedOf(stateFile)[k]["at"])
        => /\ \E t \in Threads : Returns(t) /\ Str(MarkArgs(t).number) = k
           /\ TriagedOf(stateFile')[k]["at"] > TriagedOf(stateFile)[k]["at"]

\* C17, amended: the at of an entry is the time of the mark_triaged call
\* that wrote it; it changes only when a later call for the same issue
\* replaces the entry, and then to the time of that call.
C17_AtIsTimeOfLastCall == [][C17_Step]_vars

\* An issue was triaged twice: its entry carries the time of the second
\* call, later than the time the first call had stored.
C17_Witness ==
    \E t, u \in Threads :
        /\ pc[t] = "done" /\ pc[u] = "done"
        /\ marks[t] # <<>> /\ marks[u] # <<>>
        /\ MarkArgs(t).number = MarkArgs(u).number
        /\ entry[t]["at"] < entry[u]["at"]
        /\ TriagedOf(stateFile)[Str(MarkArgs(u).number)]["at"] = entry[u]["at"]

\* -------------------------------------------------------------------------
\* C18
\* -------------------------------------------------------------------------

\* C18: in every entry mark_triaged writes, comment_posted is present only
\* when true and note only when non-empty; an entry written with
\* comment_posted false and note "" has exactly action and at; the entry
\* mark_triaged returns equals the entry stored in state.json.
C18_EntryShape ==
    \A t \in Threads :
        entry[t] # <<>>
        => LET m == MarkArgs(t)
               e == entry[t]
           IN  /\ HasKey(e, "comment_posted") <=> m.comment_posted
               /\ HasKey(e, "comment_posted") => e["comment_posted"] = TRUE
               /\ HasKey(e, "note") <=> m.note # <<>>
               /\ HasKey(e, "note") => e["note"] = m.note
               /\ (~m.comment_posted /\ m.note = <<>>) => DOMAIN e = {"action", "at"}
               /\ {"action", "at"} \subseteq DOMAIN e
               /\ pc[t] = "respond"
                  => /\ HasKey(TriagedOf(stateFile), Str(m.number))
                     /\ TriagedOf(stateFile)[Str(m.number)] = e

\* One call has stored an entry of action and at only, and a call with a
\* note of one blank has just returned the entry, note included, that
\* state.json now holds.
C18_Witness ==
    \E t, u \in Threads :
        /\ pc[t] = "done" /\ DOMAIN entry[t] = {"action", "at"}
        /\ pc[u] = "respond"
        /\ MarkArgs(u).note = <<" ">>
        /\ DOMAIN entry[u] = {"action", "at", "note"}
        /\ TriagedOf(stateFile)[Str(MarkArgs(u).number)] = entry[u]
        /\ DOMAIN TriagedOf(stateFile) = {"1", "2"}

\* -------------------------------------------------------------------------
\* C19
\* -------------------------------------------------------------------------

\* The thread takes the step.
Steps(t) == pc'[t] # pc[t]

\* No step changes findings.json or issues.json; a step that changes
\* state.json is a step of save_json inside a mark_triaged call; a step of
\* a thread that has not called mark_triaged, which every GET request and
\* every rejected or failed POST request is, changes no file.
C19_Step ==
    /\ UNCHANGED <<findingsFile, issuesFile>>
    /\ stateFile' # stateFile
       => \E t \in Threads :
            Steps(t) /\ marks[t] # <<>> /\ pc[t] \in {"save_write", "save_rename"}
    /\ \A t \in AllThreads :
        (Steps(t) /\ marks'[t] = <<>>) => UNCHANGED <<stateFile, tmpFile, dirExists>>
    /\ \A t \in AllThreads :
        (Steps(t) /\ pc'[t] = "done" /\ resp'[t].status # 200)
        => UNCHANGED <<stateFile, tmpFile, dirExists>>

\* C19: mark_triaged is the only operation that changes state.json; every
\* GET handler and every rejected or failed POST leaves issues.json,
\* findings.json and state.json unchanged (GET /api/state does not create a
\* missing state.json); no request creates or modifies issues.json or
\* findings.json.
C19_OnlyMarkTriagedWrites == [][C19_Step]_vars

\* GET /api/state was answered 200, a POST was rejected with 400 and a POST
\* failed with 502, and there is still no state.json.
C19_Witness ==
    /\ \E g \in Getters :
        pc[g] = "done" /\ req[g].route = "/api/state" /\ resp[g].status = 200
    /\ \E t, u \in Threads :
        /\ pc[t] = "done" /\ resp[t].status = 400
        /\ pc[u] = "done" /\ resp[u].status = BadGateway /\ calls[u] # <<>>
    /\ ~stateFile.exists /\ ~tmpFile.exists
    /\ findingsFile = FileOf(RepoText) /\ issuesFile = FileOf(RepoText)

\* -------------------------------------------------------------------------
\* C20
\* -------------------------------------------------------------------------

\* C20: GET /api/state always returns 200 with a document that has the key
\* triaged: the empty mapping when state.json is absent or has no triaged
\* member, otherwise the document as stored.
C20_GetStateAlways200 ==
    \A g \in Getters :
        (pc[g] # "idle" /\ req[g].route = "/api/state")
        => /\ pc[g] = "done"
           /\ resp[g].status = 200
           /\ HasKey(resp[g].body, "triaged")
           /\ \/ resp[g].body = ("triaged" :> <<>>)
              \/ resp[g].body \in SavedDocs

\* -------------------------------------------------------------------------
\* C21
\* -------------------------------------------------------------------------

\* The key of the issue the thread's mark_triaged call is about.
MarkKey(t) == Str(MarkArgs(t).number)

\* state.json holds the entry the thread's mark_triaged call returned.
Holds(file, t) ==
    /\ HasKey(TriagedOf(file), MarkKey(t))
    /\ TriagedOf(file)[MarkKey(t)] = entry[t]

\* The step that sends 200 {ok: true} finds the returned entry in
\* state.json; a GET /api/state that reads a state.json holding the entry
\* of an answered request returns that entry.
C21_Step ==
    /\ \A t \in Threads :
        (pc[t] = "respond" /\ pc'[t] = "done") => Holds(stateFile, t)
    /\ \A t \in Threads, g \in Getters :
        (/\ pc[t] = "done" /\ marks[t] # <<>> /\ Holds(stateFile, t)
         /\ pc[g] = "idle" /\ pc'[g] # "idle" /\ req'[g].route = "/api/state")
        => /\ pc'[g] = "done"
           /\ resp'[g].status = 200
           /\ HasKey(resp'[g].body["triaged"], MarkKey(t))
           /\ resp'[g].body["triaged"][MarkKey(t)] = entry[t]

\* C21: a triage write is durable before its response: when the 200
\* {ok: true} response to POST /api/action is sent, state.json already
\* holds the returned entry under str(number), and a GET /api/state that
\* starts after the response, with no write in between, returns the entry.
C21_DurableBeforeResponse == [][C21_Step]_vars

\* -------------------------------------------------------------------------
\* C22
\* -------------------------------------------------------------------------

\* The thread takes up a GET request of the route in this step.
Gets(t, route) == pc[t] = "idle" /\ pc'[t] # "idle" /\ req'[t].route = route

\* The document is the content of the file: the empty document for no
\* file, else the document whose text the file holds.
ContentOf(file, doc) ==
    IF file.exists THEN Dumps(doc) = file.bytes.text ELSE doc = EmptyDoc

\* A GET /api/findings is answered 200 with the content findings.json has
\* at that step, and leaves the file as it is.
C22_Step ==
    \A t \in Threads :
        Gets(t, "/api/findings")
        => /\ pc'[t] = "done"
           /\ resp'[t].status = 200
           /\ ContentOf(findingsFile, resp'[t].body)
           /\ findingsFile' = findingsFile

\* C22: the service keeps no cache between requests: GET /api/findings
\* returns the content findings.json has on disk at the time of the
\* request (the empty document if the file is absent), unmodified, so an
\* external update of the file is visible in the very next request.
C22_FindingsNotCached == [][C22_Step]_vars

\* Two requests were answered with different documents: findings.json was
\* rewritten between them.
C22_Witness ==
    \E t, u \in Threads :
        /\ pc[t] = "done" /\ req[t].route = "/api/findings"
        /\ pc[u] = "done" /\ req[u].route = "/api/findings"
        /\ resp[t].body # resp[u].body
        /\ resp[u].body = EmptyDoc

\* -------------------------------------------------------------------------
\* C23
\* -------------------------------------------------------------------------

\* A shutdown signal has been delivered: its handler has asked the serve
\* loop to stop.
Signalled == server.shutdown_request \/ server.is_shut_down

\* The serve loop has ended and the process with it.
Exited == server.main = "exited"

\* C23: after a shutdown signal (SIGINT or SIGTERM) is delivered to the
\* running server, the serve loop and the process eventually exit: the
\* shutdown never blocks forever.
C23_ShutdownExits == Signalled ~> Exited

\* -------------------------------------------------------------------------
\* C24
\* -------------------------------------------------------------------------

\* The last external call of the thread's request.
LastCall(t) == calls[t][Len(calls[t])]

\* The thread's request ended with a call of this outcome.
EndedWith(t, outcome) == calls[t] # <<>> /\ LastCall(t).outcome = outcome

\* The message without its last n words.
ButLast(msg, n) == SubSeq(msg, 1, Len(msg) - n)

\* The last n words of the message.
LastWords(msg, n) == SubSeq(msg, Len(msg) - n + 1, Len(msg))

TimedOutText == <<"Command", "timed", "out">>

\* C24: in an action sequence a timeout of an external call is treated
\* like a command failure: the call is the last of the sequence, the
\* answer is 502 with {ok: false, error}, no entry is recorded, and against
\* the answer of a request whose same call failed only the text after the
\* step's message differs, which is "Command timed out".
C24_TimeoutLikeFailure ==
    /\ \A t \in Threads :
        \A i \in 1..Len(calls[t]) :
            calls[t][i].outcome = "timeout"
            => /\ i = Len(calls[t])
               /\ pc[t] = "done"
               /\ resp[t].status = 502
               /\ DOMAIN resp[t].body = {"ok", "error"}
               /\ resp[t].body["ok"] = FALSE
               /\ LastWords(resp[t].body["error"], Len(TimedOutText)) = TimedOutText
               /\ NeverRecorded(t)
    /\ \A t, u \in Threads :
        (/\ EndedWith(t, "timeout") /\ EndedWith(u, "fail")
         /\ LastCall(t).verb = LastCall(u).verb
         /\ LastCall(t).arg = LastCall(u).arg)
        => /\ resp[t].status = resp[u].status
           /\ DOMAIN resp[t].body = DOMAIN resp[u].body
           /\ resp[t].body["ok"] = resp[u].body["ok"]
           /\ ButLast(resp[t].body["error"], Len(TimedOutText))
              = ButLast(resp[u].body["error"], Len(GhStderr))
           /\ NeverRecorded(t) /\ NeverRecorded(u)

\* Two close requests with a comment: the comment call of one timed out,
\* that of the other failed.
C24_Witness ==
    \E t, u \in Threads :
        /\ req[t].action = "close" /\ req[u].action = "close"
        /\ EndedWith(t, "timeout") /\ EndedWith(u, "fail")
        /\ LastCall(t).verb = "comment" /\ LastCall(u).verb = "comment"
        /\ pc[t] = "done" /\ pc[u] = "done"

\* -------------------------------------------------------------------------
\* C25
\* -------------------------------------------------------------------------

\* What the error text of a failed step starts with.
StepText(c) ==
    CASE c.verb = "add-label" -> <<"Failed", "to", "add", "label", c.arg>>
      [] c.verb = "comment" -> <<"Failed", "to", "post", "comment">>
      [] c.verb = "close" -> <<"Failed", "to", "close", "issue">>

\* C25: when an external call of an action sequence fails, the error text
\* of the 502 response names the step whose call failed (the label-add
\* with its label, the comment-post or the close), followed by the error
\* text of the tool.
C25_ErrorNamesFailedStep ==
    \A t \in Threads :
        (calls[t] # <<>> /\ LastCall(t).outcome # "ok")
        => /\ resp[t].status = 502
           /\ resp[t].body["error"]
              = StepText(LastCall(t)) \o RunGh(LastCall(t).outcome).err
           /\ \A i \in 1..(Len(calls[t]) - 1) : calls[t][i].outcome = "ok"

\* A close_wontfix request whose label-add and comment-post succeeded and
\* whose close failed.
C25_Witness ==
    \E t \in Threads :
        /\ req[t].action = "close_wontfix"
        /\ Len(calls[t]) >= 3
        /\ LastCall(t).verb = "close" /\ LastCall(t).outcome = "fail"
        /\ HasWord(resp[t].body["error"], "close")

\* -------------------------------------------------------------------------
\* C26
\* -------------------------------------------------------------------------

\* The segment is a valid issue number: the text of a positive integer.
ValidIssueSegment(seg) == IntParses(seg) /\ IntOf(seg) > 0

\* C26: GET /api/issues/{number} with a segment that is not a positive
\* integer is answered 400 and calls no external tool; else the tool is
\* called once, and a non-zero exit gives 502, a timeout 504, output that
\* is not JSON 502 and anything else 200 with the tool's JSON.  One
\* response is sent per request.
C26_IssueStatusCodes ==
    \A t \in Threads :
        (pc[t] # "idle" /\ req[t].route = "/api/issues")
        => /\ pc[t] = "done"
           /\ IF ~ValidIssueSegment(req[t].path)
              THEN resp[t].status = 400 /\ calls[t] = <<>>
              ELSE /\ Len(calls[t]) = 1
                   /\ resp[t].status =
                        CASE calls[t][1].outcome = "fail" -> 502
                          [] calls[t][1].outcome = "timeout" -> 504
                          [] calls[t][1].outcome = "notjson" -> 502
                          [] OTHER -> 200

\* -------------------------------------------------------------------------
\* C27
\* -------------------------------------------------------------------------

\* The path lies in the static asset root: the names of the root lead it.
UnderRoot(path) ==
    /\ Len(path) >= Len(static_dir)
    /\ \A i \in 1..Len(static_dir) : path[i] = static_dir[i]

\* Where the requested path, its dot segments removed, leads from the
\* static asset root.
Requested(names) == Resolve(static_dir \o Normpath(FilePath(names)))

\* C27: for every requested static path the served file lies inside the
\* static asset root: a path that resolves outside the root is answered 403
\* and no content is read, a path inside the root that is not a file is
\* answered 404, and only a file inside the root is answered 200.
C27_StaticInsideRoot ==
    \A t \in Threads :
        (pc[t] # "idle" /\ req[t].route = "static")
        => /\ pc[t] = "done"
           /\ resp[t].status = 200
              => /\ DOMAIN resp[t].body = {"file"}
                 /\ resp[t].body["file"] \in Files
                 /\ UnderRoot(resp[t].body["file"])
           /\ IF ~UnderRoot(Requested(req[t].path))
              THEN resp[t].status = 403 /\ DOMAIN resp[t].body = {"error"}
              ELSE IF Requested(req[t].path) \notin Files
              THEN resp[t].status = 404 /\ DOMAIN resp[t].body = {"error"}
              ELSE /\ resp[t].status = 200
                   /\ resp[t].body["file"] = Requested(req[t].path)

\* A path that leaves the root through ".." was refused, one that leaves
\* it through a symbolic link too, and a file of the root was served.
C27_Witness ==
    \E t, u \in Threads :
        /\ pc[t] = "done" /\ req[t].route = "static"
        /\ req[t].path \in { <<"css", "..", "..", "server.py">>, <<"out">> }
        /\ resp[t].status = 403
        /\ pc[u] = "done" /\ req[u].route = "static"
        /\ req[u].path = <<"..", "static", "index.html">>
        /\ resp[u].status = 200

\* -------------------------------------------------------------------------
\* C28
\* -------------------------------------------------------------------------

\* The issue numbers of the rendered rows.
Shown == {dash.rows[r].number : r \in 1..Len(dash.rows)}

\* The issue numbers render_dashboard was given.
Given == {dash.issues[i].number : i \in 1..Len(dash.issues)}

\* The findings of the issue number in the findings document.
FindingsFor(n) ==
    {f \in {dash.findings["issues"][k] : k \in 1..Len(dash.findings["issues"])} :
        f.number = n}

\* The effective verdict of an issue: that of its Finding, pending without
\* one.
EffectiveVerdict(n) ==
    IF FindingsFor(n) = {} THEN "pending"
    ELSE (CHOOSE f \in FindingsFor(n) : TRUE).verdict

\* The dashboard was rendered with this filter only.
OnlyFilter(name) ==
    /\ dash.rendered
    /\ \A other \in DOMAIN NoFilters \ {name, "sort"} :
        dash.filters[other] = NoFilters[other]
    /\ dash.filters[name] # NoFilters[name]

\* C28: the verdict filter keeps exactly the issues whose effective verdict
\* equals the filter value, the effective verdict of an issue without a
\* Finding being pending: verdict=pending returns every issue without a
\* Finding, any other verdict none of them.
C28_VerdictFilter ==
    OnlyFilter("verdict")
    => Shown = {n \in Given : EffectiveVerdict(n) = dash.filters.verdict}

\* -------------------------------------------------------------------------
\* C29
\* -------------------------------------------------------------------------

\* The effective confidence of an issue: that of its Finding, PENDING
\* without a Finding or with a Finding that has no confidence.
EffectiveConfidence(n) ==
    IF FindingsFor(n) = {} THEN "PENDING"
    ELSE Get(CHOOSE f \in FindingsFor(n) : TRUE, "confidence", "PENDING")

\* C29: the confidence filter keeps exactly the issues whose effective
\* confidence equals the filter value, the effective confidence of an issue
\* without a Finding, or with a Finding without confidence, being PENDING:
\* confidence=PENDING returns every issue without a Finding.
C29_ConfidenceFilter ==
    OnlyFilter("confidence")
    => Shown = {n \in Given : EffectiveConfidence(n) = dash.filters.confidence}

\* -------------------------------------------------------------------------
\* C30
\* -------------------------------------------------------------------------

\* The issue of the number among those given.
IssueOf(n) == CHOOSE i \in {dash.issues[k] : k \in 1..Len(dash.issues)} : i.number = n

\* The text has the query at some place, letter by letter without regard
\* to case.
Mentions(text, q) ==
    \E start \in 0..(Len(text) - Len(q)) :
        \A k \in 1..Len(q) : Lower(text[start + k]) = Lower(q[k])

\* The triaged mapping of the state document.
TriagedMapping == IF HasKey(dash.state, "triaged") THEN dash.state["triaged"] ELSE <<>>

\* The issue numbers of the rows the dashboard has with one of the filters
\* of the request alone.
ShownWith(name) ==
    LET rows == render_dashboard(dash.issues, dash.findings, dash.state,
                                 [NoFilters EXCEPT ![name] = dash.filters[name]])
    IN  {rows[r].number : r \in 1..Len(rows)}

\* C30: the free-text filter keeps exactly the issues whose title or body
\* contains the query, compared case-insensitively; the triage-status
\* filter keeps all issues for show=all, exactly the issues whose
\* str(number) is absent from the triaged mapping for only-untriaged and
\* exactly those present in it for only-triaged; filters compose by
\* intersection.
C30_TextAndStatusFilters ==
    /\ OnlyFilter("q")
       => Shown = {n \in Given : \/ Mentions(IssueOf(n).title, dash.filters.q)
                                 \/ Mentions(IssueOf(n).body, dash.filters.q)}
    /\ OnlyFilter("show")
       => Shown = IF dash.filters.show = "pending"
                  THEN {n \in Given : Str(n) \notin DOMAIN TriagedMapping}
                  ELSE {n \in Given : Str(n) \in DOMAIN TriagedMapping}
    /\ (dash.rendered /\ \A name \in DOMAIN NoFilters \ {"sort"} :
                            dash.filters[name] = NoFilters[name])
       => Shown = Given
    /\ dash.rendered
       => /\ Shown = ShownWith("verdict") \cap ShownWith("confidence")
                     \cap ShownWith("q") \cap ShownWith("show")
          /\ Len(dash.rows) = Cardinality(Shown)

\* The three issues, the first triaged, were filtered by the query "B" and
\* for untriaged issues: the query alone keeps the issues 1 and 2, the
\* status alone 2 and 3, and the two together issue 2.
C30_Witness ==
    /\ dash.rendered
    /\ Given = {1, 2, 3}
    /\ DOMAIN TriagedMapping = {"1"}
    /\ dash.filters.q = <<"B">>
    /\ dash.filters.show = "pending"
    /\ ShownWith("q") = {1, 2}
    /\ ShownWith("show") = {2, 3}
    /\ Shown = {2}

\* -------------------------------------------------------------------------
\* C31
\* -------------------------------------------------------------------------

\* The key the rendered rows are compared by under the sort of the request.
KeyOfRow(r) ==
    CASE dash.filters.sort = "age" -> IssueOf(dash.rows[r].number).created_at
      [] dash.filters.sort = "confidence" -> ConfidenceRank(dash.rows[r].confidence)
      [] OTHER -> dash.rows[r].number

\* C31: the default sort orders the issues by ascending issue number, and
\* the issue number is the tiebreak of the other sorts: with sort=age and
\* sort=confidence, issues equal on the sort key appear in ascending order
\* of their numbers, for every order of the input issue list.
C31_NumberIsTiebreak ==
    dash.rendered
    => \A r \in 1..(Len(dash.rows) - 1) :
          /\ KeyOfRow(r) <= KeyOfRow(r + 1)
          /\ KeyOfRow(r) = KeyOfRow(r + 1)
             => dash.rows[r].number < dash.rows[r + 1].number

\* -------------------------------------------------------------------------
\* C32
\* -------------------------------------------------------------------------

\* The rank of a confidence: HIGH, MEDIUM, LOW, and everything else with
\* PENDING.
Rank(confidence) ==
    IF confidence = "HIGH" THEN 1
    ELSE IF confidence = "MEDIUM" THEN 2
    ELSE IF confidence = "LOW" THEN 3
    ELSE 4

\* C32: sorting by confidence orders the issues by the rank HIGH < MEDIUM <
\* LOW < PENDING: no issue of a later rank appears before an issue of an
\* earlier rank, and an issue with no Finding, no confidence or an unknown
\* confidence is ranked as PENDING, last.
C32_ConfidenceOrder ==
    (dash.rendered /\ dash.filters.sort = "confidence")
    => \A r, s \in 1..Len(dash.rows) :
          r < s => Rank(EffectiveConfidence(dash.rows[r].number))
                   <= Rank(EffectiveConfidence(dash.rows[s].number))

\* The issues 1, 2, 3 in this order, the first with an unknown confidence,
\* the second with HIGH, the third with LOW, sorted by confidence.
C32_Witness ==
    /\ dash.rendered /\ dash.filters.sort = "confidence"
    /\ [i \in 1..Len(dash.issues) |-> dash.issues[i].number] = <<1, 2, 3>>
    /\ EffectiveConfidence(1) = "SOME"
    /\ EffectiveConfidence(2) = "HIGH"
    /\ EffectiveConfidence(3) = "LOW"
    /\ [r \in 1..Len(dash.rows) |-> dash.rows[r].number] = <<2, 3, 1>>

\* -------------------------------------------------------------------------
\* C33
\* -------------------------------------------------------------------------

\* The repo field of a file, empty where the file or the field is absent.
RepoIn(file) == Get(load_json(file), "repo", "")

\* The repo the rule names for main's arguments and files; empty where no
\* source has one.
RepoByRule(arg) ==
    IF ~NotRepo(arg) THEN arg
    ELSE IF RepoIn(findingsFile) # "" THEN RepoIn(findingsFile)
    ELSE RepoIn(issuesFile)

\* main on a triage directory that exists: with a repo by the rule it
\* listens with that repo, without one it exits with status 1 and never
\* listens.
C33_Step ==
    (dirExists /\ server.main = "start" /\ server'.main # "start")
    => IF RepoByRule(server.repo) = ""
       THEN server'.main = "exit 1"
       ELSE server'.main = "serve" /\ server'.repo = RepoByRule(server.repo)

\* C33: the repo of every external call is the --repo value when a
\* non-empty one is given, else the non-empty repo field of findings.json,
\* else the repo field of issues.json; and when none of the three is
\* non-empty main exits with an error and the server never listens.
C33_RepoResolved ==
    /\ [](\A t \in AllThreads : \A k \in 1..Len(calls[t]) :
            Listening /\ calls[t][k].repo = server.repo)
    /\ [][C33_Step]_vars

\* main was started without --repo on a findings.json with an empty repo
\* and an issues.json with one, and a request has made an external call
\* with the repo of issues.json.
C33_Witness ==
    /\ findingsFile = FileOf(EmptyRepoText)
    /\ RepoIn(issuesFile) = "a/b"
    /\ \E t \in AllThreads : \E k \in 1..Len(calls[t]) :
        calls[t][k].repo = "a/b"

\* -------------------------------------------------------------------------
\* C34
\* -------------------------------------------------------------------------

\* The thread's action request has been answered 200 {ok: true}.
AnsweredOk(t) ==
    /\ pc[t] = "done"
    /\ marks[t] # <<>>
    /\ resp[t].status = 200
    /\ resp[t].body["ok"] = TRUE

\* C34: when two action requests on different issue numbers have run
\* concurrently and both have been answered 200 {ok: true}, state.json
\* holds the entry of both issue numbers.
C34_NoLostEntry ==
    \A t, u \in Threads :
        (/\ AnsweredOk(t) /\ AnsweredOk(u)
         /\ MarkArgs(t).number # MarkArgs(u).number)
        => /\ HasKey(TriagedOf(stateFile), Str(MarkArgs(t).number))
           /\ HasKey(TriagedOf(stateFile), Str(MarkArgs(u).number))

\* -------------------------------------------------------------------------
\* C35
\* -------------------------------------------------------------------------

\* C35: an action request whose external calls all succeeded does not end
\* without its answer: when its handler has ended, mark_triaged has
\* returned, the response 200 {ok: true} has been sent and it carries the
\* entry the request saved, whatever other requests ran at the same time.
C35_SucceededIsRecordedAndAnswered ==
    \A t \in Threads :
        (Finished(t) /\ marks[t] # <<>> /\ AllOk(calls[t]))
        => /\ AnsweredOk(t)
           /\ resp[t].body["entry"] = entry[t]

\* -------------------------------------------------------------------------
\* C36
\* -------------------------------------------------------------------------

\* The function without the key.
Without(f, k) == [x \in DOMAIN f \ {k} |-> f[x]]

\* When a mark_triaged(N, ...) call that no other call overlaps returns,
\* state.json is the document of before the call but for the entry of N.
C36_Step ==
    \A t \in Threads :
        Returns(t)
        => LET k == Str(MarkArgs(t).number)
               before == load_json(stateFile)
               after == load_json(stateFile')
           IN  /\ Without(after, "triaged") = Without(before, "triaged")
               /\ Without(TriagedOf(stateFile'), k) = Without(TriagedOf(stateFile), k)
               /\ HasKey(TriagedOf(stateFile'), k)

\* C36: in sequential execution mark_triaged(N, ...) changes only the entry
\* of N: the entry of every other issue number and every other top-level
\* member of state.json are after the call what they were before it.
C36_OnlyEntryOfN == [][C36_Step]_vars

\* mark_triaged(1, ...) has returned on a state.json that had the member
\* version and an entry of issue 2: both are there as they were, beside
\* the new entry of issue 1.
C36_Witness ==
    \E t \in Threads :
        /\ pc[t] = "respond"
        /\ MarkArgs(t).number = 1
        /\ Parses(stateFile)
        /\ load_json(stateFile)["version"] = 1
        /\ DOMAIN TriagedOf(stateFile) = {"1", "2"}
        /\ TriagedOf(stateFile)["2"] = NewEntry("closed", 0, TRUE, <<>>)
        /\ TriagedOf(stateFile)["1"] = entry[t]
        /\ entry[t]["action"] = "commented"

\* -------------------------------------------------------------------------
\* C37
\* -------------------------------------------------------------------------

\* Some action request on the issue of the key has issued its whole
\* external call sequence with every call successful.
SucceededFor(k) ==
    \E t \in Threads :
        /\ req[t].route = "/api/action"
        /\ IsInt(req[t].numtype) /\ Str(req[t].number) = k
        /\ SequenceSucceeded(t)

\* The requests on the issue of the key that have ended were all rejected
\* or had a failed external call.
OnlyRejectedOrFailed(k) ==
    \E t \in Threads :
        /\ IsInt(req[t].numtype) /\ Str(req[t].number) = k
        /\ pc[t] = "done" /\ resp[t].status \in {400, BadGateway}
        /\ \A u \in Threads \ {t} :
            (pc[u] # "idle" /\ Str(req[u].number) = k)
            => pc[u] = "done" /\ resp[u].status \in {400, BadGateway}

\* C37: from an empty triage state on, state.json has the key str(N) only
\* if some POST /api/action for N had every external call of its sequence
\* succeed; an issue all of whose requests were rejected or failed has no
\* key.
C37_KeyOnlyAfterSuccess ==
    /\ \A k \in DOMAIN TriagedOf(stateFile) : SucceededFor(k)
    /\ \A k \in IssueKeys : OnlyRejectedOrFailed(k) => ~HasKey(TriagedOf(stateFile), k)

\* The close of issue 1 failed after its comment was posted and was
\* answered 502, the request on issue 2 succeeded: state.json has the key
\* of issue 2 and not that of issue 1.
C37_Witness ==
    \E t, u \in Threads :
        /\ req[t].number = 1 /\ req[t].action = "close"
        /\ Verbs(calls[t]) = <<"comment", "close">>
        /\ calls[t][2].outcome = "fail"
        /\ resp[t].status = BadGateway
        /\ req[u].number = 2 /\ resp[u].status = 200
        /\ DOMAIN TriagedOf(stateFile) = {"2"}

\* -------------------------------------------------------------------------
\* C38
\* -------------------------------------------------------------------------

\* The action an entry records for the action of the request.
RecordedFor(action) ==
    CASE action \in {"close", "close_wontfix"} -> "closed"
      [] action = "comment" -> "commented"
      [] action = "skip" -> "skipped"
      [] OTHER -> "none"

\* The decimal strings of the positive integers up to the largest number
\* of the model.
PositiveDecimals == {ToString(n) : n \in 1..PyTrue}

\* C38: every entry written through the HTTP layer has the action closed,
\* commented or skipped that belongs to the action of its request (closed
\* for close and close_wontfix, commented for comment, skipped for skip),
\* the 200 response reports the same action, and the key of the entry is
\* the decimal string of a positive integer.
C38_EntryActionAndKey ==
    /\ \A t \in Threads :
        marks[t] # <<>>
        => /\ MarkArgs(t).action = RecordedFor(req[t].action)
           /\ MarkArgs(t).action \in {"closed", "commented", "skipped"}
           /\ entry[t] # <<>> => entry[t]["action"] = MarkArgs(t).action
           /\ resp[t].status = 200 => resp[t].body["action"] = MarkArgs(t).action
    /\ \A k \in DOMAIN TriagedOf(stateFile) :
        /\ k \in PositiveDecimals
        /\ TriagedOf(stateFile)[k]["action"] \in {"closed", "commented", "skipped"}

\* -------------------------------------------------------------------------
\* C39
\* -------------------------------------------------------------------------

\* The request issued a comment-post call and the call succeeded.
PostedComment(t) ==
    \E i \in 1..Len(calls[t]) :
        calls[t][i].verb = "comment" /\ calls[t][i].outcome = "ok"

\* C39: the entry an action request writes has comment_posted, and then
\* true, exactly if the same request issued a comment-post call that
\* succeeded; the entry of a close with an empty or whitespace-only comment
\* and the entry of a skip have no comment_posted; and every entry in
\* state.json is the entry of a request on its issue.
C39_CommentPostedIffPosted ==
    /\ \A t \in Threads :
        entry[t] # <<>>
        => /\ HasKey(entry[t], "comment_posted") <=> PostedComment(t)
           /\ HasKey(entry[t], "comment_posted") => entry[t]["comment_posted"] = TRUE
           /\ saving[t]["triaged"][MarkKey(t)] = entry[t]
           /\ (req[t].action \in {"close", "close_wontfix"} /\ Blank(req[t].comment))
              => ~HasKey(entry[t], "comment_posted")
           /\ req[t].action = "skip" => ~HasKey(entry[t], "comment_posted")
    /\ \A k \in DOMAIN TriagedOf(stateFile) :
        \E t \in Threads :
            /\ entry[t] # <<>> /\ MarkKey(t) = k
            /\ TriagedOf(stateFile)[k] = entry[t]

\* A close with a whitespace-only comment closed issue 1 without posting,
\* a comment request posted on issue 2: state.json has the entry of issue
\* 1 without comment_posted and that of issue 2 with it.
C39_Witness ==
    \E t, u \in Threads :
        /\ req[t].action = "close" /\ req[t].number = 1
        /\ req[t].comment # <<>> /\ Blank(req[t].comment)
        /\ Verbs(calls[t]) = <<"close">>
        /\ req[u].action = "comment" /\ req[u].number = 2 /\ PostedComment(u)
        /\ DOMAIN TriagedOf(stateFile) = {"1", "2"}
        /\ ~HasKey(TriagedOf(stateFile)["1"], "comment_posted")
        /\ TriagedOf(stateFile)["2"]["comment_posted"] = TRUE

\* -------------------------------------------------------------------------
\* C40
\* -------------------------------------------------------------------------

\* The thread's step is a comment-post call.
PostsComment(t) ==
    /\ Len(calls'[t]) = Len(calls[t]) + 1
    /\ calls'[t][Len(calls'[t])].verb = "comment"

\* The comment temp file of a request is there when its comment-post call
\* starts and gone when the call has returned, and no other step removes
\* it.
C40_Step ==
    \A t \in Threads :
        /\ PostsComment(t) => bodyFile[t] /\ ~bodyFile'[t]
        /\ (bodyFile[t] /\ ~bodyFile'[t]) => PostsComment(t)

\* C40: the temporary file with the comment body exists while the
\* comment-post call runs and is removed afterwards on every path: whether
\* the call succeeded, failed or timed out, a request that has been
\* answered, or has gone on to its next step, has left no comment temp
\* file.
C40_BodyFileRemoved ==
    /\ [](\A t \in Threads :
            /\ bodyFile[t] <=> pc[t] \in {"close_comment", "comment_post"}
            /\ Finished(t) => ~bodyFile[t])
    /\ [][C40_Step]_vars

\* The comment-post call of a close timed out and the request was answered
\* 502: its temp file is gone.
C40_Witness ==
    \E t \in Threads :
        /\ req[t].action = "close"
        /\ Len(calls[t]) = 1
        /\ calls[t][1].verb = "comment" /\ calls[t][1].outcome = "timeout"
        /\ pc[t] = "done" /\ resp[t].status = BadGateway
        /\ ~bodyFile[t]

====
